---- MODULE Spec2Model ----
(***************************************************************************)
(* readingproc: one ReadingProc object (src/build/lib/readingproc), the    *)
(* operating-system process it owns, the pipes between them, the wall      *)
(* clock, and a caller that drives the object's public methods.            *)
(*                                                                         *)
(* Optional values (Python's None) are sets with at most one element:      *)
(* None is {}, a value v is {v}.                                           *)
(*                                                                         *)
(* Scope of the caller: while an iter_run generator is live the caller     *)
(* steps it (next), closes it, or calls send_stdin; the other methods are  *)
(* called when no generator is live.  stdin_terminal is False.             *)
(*                                                                         *)
(* The specifications share the actions.  Spec is the life cycle: every    *)
(* method, any number of restarts, iter_run without timeouts (no decision  *)
(* reads the clock, which stands still).  TimeoutSpec is one started child *)
(* iterated with every combination of timeouts while the clock runs.       *)
(* GroupSpec is a child that leaves processes in its process group and is  *)
(* stopped.  EchoSpec is an echo child fed through send_stdin.             *)
(*                                                                         *)
(* SetSpec is one ReadingSet (the driver): its constructor, its operators  *)
(* with the driver on either side of a plain set or of another ReadingSet, *)
(* add, remove, the membership test, and ReadingSet.iter_run without       *)
(* timeouts over members that the caller starts and kills and whose        *)
(* processes exit.  A member is known there by what its read() meets.      *)
(* DriverSpec is ReadingSet.iter_run under every combination of timeouts,  *)
(* of iter_run and of a TimeoutProc member, while the clock runs.          *)
(* ReturnSpec is the iteration with return_back and add called at the      *)
(* yields and members started again.  AliveSpec is get_all, get_alive,     *)
(* get_dead, start_all, kill_all and terminate_all.  TwoIterSpec is two    *)
(* generators of the one ReadingSet stepped in turn.  LiveSpec is the       *)
(* iteration consumed to its end under fair scheduling.  FeedSpec is the   *)
(* ReadingSet iterating the ReadingProc object itself, pipes included.     *)
(* ReadSpec is _read_while on a descriptor whose reads meet chunks, ends   *)
(* of file and errors.                                                     *)
(*                                                                         *)
(* ManagerSpec is one ThreadStdinManager (src/readingproc): one caller     *)
(* thread calling start, send_stdin and stop, and the sending threads,     *)
(* interleaved with it statement by statement.                             *)
(***************************************************************************)
EXTENDS Integers, Sequences, FiniteSets, TLC

\* ------------------------------------------------------------------ bounds
MaxTime == 3        \* the clock runs from 0 to MaxTime
MaxTimeout == 2     \* chunk_timeout / total_timeout arguments are None or 1..MaxTimeout
MaxBytes == 2       \* bytes one process writes to stdout and stderr together
MaxStarts == 2      \* processes spawned over the life of the object
MaxSend == 2        \* bytes accepted by one process's stdin pipe
read_chunk == 1     \* the constructor's read_chunk: bytes asked of one os.read
MaxGroup == 1       \* processes the child leaves in its process group besides itself
MaxReads == 3       \* os.read calls one descriptor answers before it has nothing more
max_len == 1        \* ThreadStdinManager(max_len): capacity of the message queue
MaxMessages == 2    \* messages a ThreadStdinManager accepts over its life
MaxWorkers == 2     \* sending threads a ThreadStdinManager creates over its life

\* ------------------------------------------------------- program constants
SIGKILL == 9
SIGTERM == 15

None == {}
Some(v) == {v}
The(x) == CHOOSE v \in x : TRUE

ExitCodes == {0, 1}
Timeouts == {None} \cup {Some(n) : n \in 1..MaxTimeout}

Min(a, b) == IF a < b THEN a ELSE b

VARIABLES
    proc,            \* self._proc: None, or Some(pid) for the Popen handle held
    pid,             \* self._pid
    return_code,     \* self._return_code (the attribute exists once start ran)
    chunk_time,      \* self._chunk_time
    total_time,      \* self._total_time
    poll_registered, \* the fds are registered in self._poll_stdout/_poll_stderr
    flags,           \* O_NONBLOCK bit of the held stdout / stderr descriptors
    communicated,    \* Popen.communicate() has run on self._proc: its pipes are closed
    gen,             \* frame of the iter_run generator: pc, arguments, saved flags
    os,              \* the operating system's view of the spawned processes
    pipes,           \* unread bytes of stdout and stderr, bytes written to stdin
    written,         \* history: all bytes the current process wrote
    got,             \* history: all bytes of the current process handed to the caller
    now,             \* time()
    last,            \* history: the last call the caller made and how it ended
    ended,           \* history: how the last finished iter_run generator ended
    rs_set,          \* ReadingSet._set of the driver: the items it holds
    active_procs,    \* ReadingSet._active_procs of the driver: None, or Some(set)
    rs_gen,          \* frame of the ReadingSet.iter_run generator: pc, todo
    member,          \* what read() of each member would meet: its process's state
    rs_last,         \* history: the last call on the driver and how it ended
    timeout_proc,    \* total_timeout / chunk_timeout of the members built as TimeoutProc
    rs_parked,       \* frame of a second ReadingSet.iter_run generator the caller holds
    rs_hist,         \* history: visits and items of the iteration that is running
    fd,              \* a descriptor by itself: what its os.read calls to come will meet
    read_res,        \* history: the last _read_while on fd, None before the first
    mgr_t,               \* ThreadStdinManager._t: None, or Some(thread) it created last
    q_exit,          \* ThreadStdinManager._q_exit: the exit requests in the queue
    messages,        \* ThreadStdinManager._messages: the queue of Message objects
    jobs,            \* the threads created: the place of each in _job, its message
    stopping,        \* frame of the caller's stop() in progress: pc, timeout
    mgr_last,        \* history: the last call on the manager and how it ended
    passed           \* history: the messages given to a child's send_stdin

\* The variables of the one ReadingProc and its process.
proc_vars == <<proc, pid, return_code, chunk_time, total_time, poll_registered, flags,
               communicated, gen, os, pipes, written, got, now, last, ended>>

\* The variables of the ReadingSet and its members.
set_vars == <<rs_set, active_procs, rs_gen, member, rs_last, timeout_proc, rs_parked,
              rs_hist>>

\* A descriptor read by _read_while on its own.
io_vars == <<fd, read_res>>

\* The variables of the ThreadStdinManager and its threads.
mgr_vars == <<mgr_t, q_exit, messages, jobs, stopping, mgr_last, passed>>

\* The variables outside the ReadingProc, the ReadingSet and their processes.
ext_vars == <<io_vars, mgr_vars>>

vars == <<proc_vars, set_vars, ext_vars>>

NoFlags == [stdout |-> FALSE, stderr |-> FALSE]
NoBytes == [stdout |-> <<>>, stderr |-> <<>>]
NoGen == [pc |-> "none", chunk_timeout |-> None, total_timeout |-> None,
          saved |-> NoFlags]

\* The ReadingProc objects that can be members of the ReadingSet, and an object that
\* is not a ReadingProc (an int).
Procs == {"p1", "p2"}
NotAProc == "x"
Items == Procs \cup {NotAProc}

\* The elements of the other operand of |, & and -: part of the members, all of them,
\* and a set with an element that is not a ReadingProc.
Operands == {{"p1"}, {"p1", "p2"}, {"p2", NotAProc}}

\* timeout_times of ReadingSet.iter_run before any member has an entry.
NoTimers == [p \in {} |-> [total_timeout_time |-> 0, chunk_timeout_time |-> 0]]

\* No ReadingSet.iter_run generator is live.  A live one holds its arguments, its
\* timeout_times and, in todo, what its for loop has yet to visit of active_procs_copy.
NoSetGen ==
    [pc |-> "none", todo |-> {}, total_timeout |-> None, chunk_timeout |-> None,
     timeout_times |-> NoTimers]

\* History of one iteration: the members it began with, the copy of _active_procs the
\* running cycle was made over, the visits paid to each member in that cycle, the
\* items with an exception yielded for each member (both counted up to 2), and the
\* members given to return_back.
NoSetHist ==
    [started |-> {}, cycle |-> {}, visits |-> [p \in Procs |-> 0],
     ends |-> [p \in Procs |-> 0], returned |-> {}]

\* A call on the driver and how it ended: the operator, the side the driver stood on,
\* the kind and the elements of the other operand, the exception or the kind of the
\* value, the elements of a ReadingSet returned, and whether _active_procs was set.
SetCalled(op, side, kind, other, res, value) ==
    [op |-> op, side |-> side, kind |-> kind, other |-> other, res |-> res,
     value |-> value, iterating |-> active_procs # None]

NoSetCall ==
    [op |-> "init", side |-> "left", kind |-> "set", other |-> {}, res |-> "ok",
     value |-> None, iterating |-> FALSE]

\* The lifecycle state of the object, read off the fields the code tests:
\* _proc is None (_check_started), Popen.poll() (alive), communicate() done (join).
State ==
    IF proc = None THEN (IF os.spawned = 0 THEN "NEW" ELSE "REAPED")
    ELSE IF communicated THEN "JOINED"
    ELSE IF os.status = "running" THEN "RUNNING"
    ELSE "EXITED"

\* A call and how it ended.  pre is the state it was made in; stdout and stderr are
\* the ProcessData it returned; at, chunk_timeout and total_timeout are the time and
\* the iter_run arguments of a timeout it raised.
Called(op, res) ==
    [op |-> op, res |-> res, pre |-> State, stdout |-> <<>>, stderr |-> <<>>, at |-> 0,
     chunk_timeout |-> None, total_timeout |-> None]

ObjectsInit ==
    /\ proc = None
    /\ pid = None
    /\ return_code = None
    /\ chunk_time = None
    /\ total_time = None
    /\ poll_registered = FALSE
    /\ flags = NoFlags
    /\ communicated = FALSE
    /\ gen = NoGen
    /\ os = [status |-> "none", code |-> None, spawned |-> 0, orphans |-> 0,
             signal |-> None, group |-> 0]
    /\ pipes = [stdout |-> <<>>, stderr |-> <<>>, stdin |-> <<>>]
    /\ written = NoBytes
    /\ got = NoBytes
    /\ now = 0
    /\ last = [op |-> "init", res |-> "ok", pre |-> "NEW", stdout |-> <<>>,
               stderr |-> <<>>, at |-> 0, chunk_timeout |-> None,
               total_timeout |-> None]
    /\ ended = "never"
    /\ rs_set = {}
    /\ active_procs = None
    /\ rs_gen = NoSetGen
    /\ member = [p \in Procs |-> "unstarted"]
    /\ rs_last = NoSetCall
    /\ timeout_proc = [p \in Procs |-> None]
    /\ rs_parked = NoSetGen
    /\ rs_hist = NoSetHist

\* ThreadStdinManager.__init__: no thread, both queues empty.
NoStop == [pc |-> "none", timeout |-> None]
NoManagerCall == [op |-> "init", res |-> "ok", started |-> FALSE, running |-> FALSE]
ManagerInit ==
    /\ mgr_t = None
    /\ q_exit = 0
    /\ messages = <<>>
    /\ jobs = <<>>
    /\ stopping = NoStop
    /\ mgr_last = NoManagerCall
    /\ passed = {}

Init ==
    /\ ObjectsInit
    /\ fd = <<>>
    /\ read_res = None
    /\ ManagerInit

\* ------------------------------------------------------------ environment

Tick ==
    /\ now < MaxTime
    /\ now' = now + 1
    /\ UNCHANGED <<proc, pid, return_code, chunk_time, total_time, poll_registered,
                   flags, communicated, gen, os, pipes, written, got, last, ended>>
    /\ UNCHANGED <<set_vars, ext_vars>>

\* The child writes its next byte (bytes are numbered in the order written).
ChildWrite(stream) ==
    /\ os.status = "running"
    /\ Len(written.stdout) + Len(written.stderr) < MaxBytes
    /\ LET b == Len(written.stdout) + Len(written.stderr) + 1 IN
        /\ pipes' = [pipes EXCEPT ![stream] = Append(@, b)]
        /\ written' = [written EXCEPT ![stream] = Append(@, b)]
    /\ UNCHANGED <<proc, pid, return_code, chunk_time, total_time, poll_registered,
                   flags, communicated, gen, os, got, now, last, ended>>
    /\ UNCHANGED <<set_vars, ext_vars>>

\* The child exits on its own; it stays a zombie until Popen waits for it.
ChildExit(code) ==
    /\ os.status = "running"
    /\ os' = [os EXCEPT !.status = "exited", !.code = Some(code)]
    /\ UNCHANGED <<proc, pid, return_code, chunk_time, total_time, poll_registered,
                   flags, communicated, gen, pipes, written, got, now, last, ended>>
    /\ UNCHANGED <<set_vars, ext_vars>>

\* An echo child (cat): it reads the next byte of its stdin and writes it to stdout.
ChildEcho ==
    /\ os.status = "running"
    /\ Len(written.stdout) < Len(pipes.stdin)
    /\ LET b == pipes.stdin[Len(written.stdout) + 1] IN
          /\ pipes' = [pipes EXCEPT !.stdout = Append(@, b)]
          /\ written' = [written EXCEPT !.stdout = Append(@, b)]
    /\ UNCHANGED <<proc, pid, return_code, chunk_time, total_time, poll_registered,
                   flags, communicated, gen, os, got, now, last, ended>>
    /\ UNCHANGED <<set_vars, ext_vars>>

\* The child (a shell, shell=True) puts a command in the background: one more process
\* in the group that os.setpgrp made, with its output redirected away from the pipes.
ChildFork ==
    /\ os.status = "running"
    /\ os.group < MaxGroup
    /\ os' = [os EXCEPT !.group = @ + 1]
    /\ UNCHANGED <<proc, pid, return_code, chunk_time, total_time, poll_registered,
                   flags, communicated, gen, pipes, written, got, now, last, ended>>
    /\ UNCHANGED <<set_vars, ext_vars>>

\* ------------------------------------------------------------ pure helpers

\* Popen.poll(): the exit status once the process has exited, else None.
popen_poll == IF os.status = "exited" THEN os.code ELSE None

\* alive without the poll of the process: true whenever a handle is held.
alive_handle_held == proc # None

\* ReadingProc.alive
alive == proc # None /\ popen_poll = None

\* _read_while putting each chunk in front of the buffer (chunk + buff).
RECURSIVE read_while_from_prepend(_, _)
read_while_from_prepend(buff, rest) ==
    IF Len(rest) = 0 THEN buff
    ELSE LET n == Min(read_chunk, Len(rest)) IN
         read_while_from_prepend(SubSeq(rest, 1, n) \o buff,
                                 SubSeq(rest, n + 1, Len(rest)))

RECURSIVE read_while_from(_, _)
read_while_from(buff, rest) ==
    IF Len(rest) = 0 THEN buff
    ELSE LET n == Min(read_chunk, Len(rest)) IN
         read_while_from(buff \o SubSeq(rest, 1, n), SubSeq(rest, n + 1, Len(rest)))

\* ReadingProc._read_while: os.read in read_chunk pieces until 0 bytes or would-block.
read_while(pipe) == read_while_from(<<>>, pipe)

\* select.poll().poll(0): readable bytes, or the write end closed (POLLHUP).
poll_ready(pipe) == Len(pipe) > 0 \/ os.status # "running"

\* _yield_ready_read without the test of the lengths: a ProcessData every time.
yield_ready_read_always ==
    LET stdout == IF poll_ready(pipes.stdout) THEN read_while(pipes.stdout) ELSE <<>>
        stderr == IF poll_ready(pipes.stderr) THEN read_while(pipes.stderr) ELSE <<>>
    IN  Some([stdout |-> stdout, stderr |-> stderr])

\* ReadingProc._yield_ready_read: the ProcessData, or None.
yield_ready_read ==
    LET stdout == IF poll_ready(pipes.stdout) THEN read_while(pipes.stdout) ELSE <<>>
        stderr == IF poll_ready(pipes.stderr) THEN read_while(pipes.stderr) ELSE <<>>
    IN  IF Len(stdout) > 0 \/ Len(stderr) > 0
        THEN Some([stdout |-> stdout, stderr |-> stderr])
        ELSE None

\* What _read_while leaves in a pipe: the bytes after those it returned.
unread(pipe) == SubSeq(pipe, Len(read_while(pipe)) + 1, Len(pipe))

\* The pipes after _yield_ready_read read those that poll reported ready.
drained ==
    [pipes EXCEPT !.stdout = IF poll_ready(@) THEN unread(@) ELSE @,
                  !.stderr = IF poll_ready(@) THEN unread(@) ELSE @]

\* _check_timeouts with the total timeout tested first.
check_timeouts_total_first(chunk_timeout, total_timeout) ==
    LET cur_time == now IN
    IF total_timeout # None /\ cur_time > The(total_time) + The(total_timeout)
    THEN "TotalTimeout"
    ELSE IF chunk_timeout # None /\ cur_time > The(chunk_time) + The(chunk_timeout)
    THEN "ChunkTimeout"
    ELSE "ok"

\* _check_timeouts raising as soon as a deadline is reached (>= for >).
check_timeouts_at_deadline(chunk_timeout, total_timeout) ==
    LET cur_time == now IN
    IF chunk_timeout # None /\ cur_time >= The(chunk_time) + The(chunk_timeout)
    THEN "ChunkTimeout"
    ELSE IF total_timeout # None /\ cur_time >= The(total_time) + The(total_timeout)
    THEN "TotalTimeout"
    ELSE "ok"

\* ReadingProc._check_timeouts: the exception it raises, or "ok".
check_timeouts(chunk_timeout, total_timeout) ==
    LET cur_time == now IN
    IF chunk_timeout # None /\ cur_time > The(chunk_time) + The(chunk_timeout)
    THEN "ChunkTimeout"
    ELSE IF total_timeout # None /\ cur_time > The(total_time) + The(total_timeout)
    THEN "TotalTimeout"
    ELSE "ok"

\* ReadingProc._update_chunk_time
update_chunk_time == chunk_time' = Some(now)

\* unblock_read on both descriptors: O_NONBLOCK set.
unblocked == [stdout |-> TRUE, stderr |-> TRUE]

\* Popen.communicate(): waits for the exit, reads both pipes to the end, closes them;
\* Popen.returncode is then the exit status.
popen_returncode == os.code
communicated_pipes == [pipes EXCEPT !.stdout = <<>>, !.stderr = <<>>]

\* ----------------------------------------------------------- the caller

\* The caller holds control: no generator is live.
Idle == gen.pc = "none"

\* start without its last line: the return code of the earlier process is kept.
start_return_code_kept == return_code

\* self._return_code = None, the last line of start.
start_return_code == None

\* ReadingProc.start: no test of the current state; a new Popen replaces self._proc.
start ==
    /\ Idle
    /\ os.spawned < MaxStarts
    /\ proc' = Some(os.spawned + 1)
    /\ pid' = Some(os.spawned + 1)
    /\ return_code' = start_return_code
    /\ communicated' = FALSE
    /\ os' = [status |-> "running", code |-> None, spawned |-> os.spawned + 1,
              orphans |-> os.orphans + os.group
                          + (IF proc # None /\ os.status = "running" THEN 1 ELSE 0),
              signal |-> None, group |-> 0]
    /\ pipes' = [stdout |-> <<>>, stderr |-> <<>>, stdin |-> <<>>]
    /\ written' = NoBytes
    /\ got' = NoBytes
    /\ flags' = NoFlags
    /\ last' = Called("start", "ok")
    /\ UNCHANGED <<chunk_time, total_time, poll_registered, gen, now, ended>>
    /\ UNCHANGED <<set_vars, ext_vars>>

\* send_stdin without the _check_started decorator.
send_stdin_result_unchecked ==
    IF proc = None THEN "AttributeError"
    ELSE IF communicated THEN "ValueError"
    ELSE IF os.status # "running" THEN "BrokenPipeError"
    ELSE "ok"

\* _check_started, then stdin.write and stdin.flush: what the call ends with.
send_stdin_result ==
    IF proc = None THEN "ProcessIsNotStartedError"
    ELSE IF communicated THEN "ValueError"
    ELSE IF os.status # "running" THEN "BrokenPipeError"
    ELSE "ok"

\* ReadingProc.send_stdin
send_stdin(s_bytes) ==
    /\ gen.pc \in {"none", "created", "yielded", "yieldedFinal"}
    /\ Len(pipes.stdin) < MaxSend
    /\ pipes' = IF send_stdin_result = "ok"
                THEN [pipes EXCEPT !.stdin = Append(@, s_bytes)]
                ELSE pipes
    /\ last' = Called("send_stdin", send_stdin_result)
    /\ UNCHANGED <<proc, pid, return_code, chunk_time, total_time, poll_registered,
                   flags, communicated, gen, os, written, got, now, ended>>
    /\ UNCHANGED <<set_vars, ext_vars>>

\* ReadingProc.read: what the call does to the object, its pipes and the record of
\* the caller's calls.
read_call ==
    /\ Idle
    /\ IF proc = None THEN
            /\ last' = Called("read", "ProcessIsNotStartedError")
            /\ UNCHANGED <<pipes, got>>
       ELSE IF ~alive THEN
            /\ last' = Called("read", "ProcessIsDeadError")
            /\ UNCHANGED <<pipes, got>>
       ELSE \* _register_poll and _unblock_read are entered and left inside the call
            /\ pipes' = drained
            /\ last' = IF yield_ready_read = None
                       THEN Called("read", "None")
                       ELSE [Called("read", "ProcessData") EXCEPT
                                !.stdout = The(yield_ready_read).stdout,
                                !.stderr = The(yield_ready_read).stderr]
            /\ got' = IF yield_ready_read = None THEN got
                      ELSE [stdout |-> got.stdout \o The(yield_ready_read).stdout,
                            stderr |-> got.stderr \o The(yield_ready_read).stderr]
    /\ UNCHANGED <<proc, pid, return_code, chunk_time, total_time, poll_registered,
                   flags, communicated, gen, os, written, now, ended>>

\* ReadingProc.read
read ==
    /\ read_call
    /\ UNCHANGED <<set_vars, ext_vars>>

\* ReadingProc.join: communicate() returns once the process has exited.
join ==
    /\ Idle
    /\ IF proc = None THEN
            /\ last' = Called("join", "AttributeError")
            /\ UNCHANGED <<return_code, communicated, pipes>>
       ELSE /\ os.status = "exited"
            /\ communicated' = TRUE
            /\ pipes' = communicated_pipes
            /\ return_code' = popen_returncode
            /\ last' = Called("join", "ok")
    /\ UNCHANGED <<proc, pid, chunk_time, total_time, poll_registered, flags, gen, os,
                   written, got, now, ended>>
    /\ UNCHANGED <<set_vars, ext_vars>>

\* ReadingProc._kill_pg: the signal goes to the process group; the process dies of it.
kill_pg(sig) == [os EXCEPT !.status = "exited", !.code = Some(0 - sig),
                           !.signal = Some(sig), !.group = 0]

\* _stop_proc without its finally clause: the handle is kept.
stop_proc_finally_kept == proc

\* finally: self._proc = None, the end of _stop_proc.
stop_proc_finally == None

\* The process exits on its own after alive saw it running and before the signal is
\* sent: the signal reaches a zombie, whose exit code stands, and the rest of the group.
kill_pg_late(sig) ==
    {[os EXCEPT !.status = "exited", !.code = Some(code), !.signal = Some(sig),
                !.group = 0] : code \in ExitCodes}

\* _stop_proc sending the signal whatever alive says.
stop_proc_signals_always == TRUE

\* ReadingProc._stop_proc: if self.alive
stop_proc_signals == alive

\* ReadingProc._stop_proc
stop_proc(name, sig) ==
    /\ Idle
    /\ IF proc = None THEN
            /\ last' = Called(name, "ProcessIsNotStartedError")
            /\ UNCHANGED <<communicated, os, pipes>>
       ELSE /\ IF stop_proc_signals
               THEN os' = kill_pg(sig) \/ (alive /\ os' \in kill_pg_late(sig))
               ELSE os' = os
            /\ communicated' = TRUE
            /\ pipes' = communicated_pipes
            /\ last' = Called(name, "ok")
    /\ proc' = stop_proc_finally
    /\ UNCHANGED <<pid, return_code, chunk_time, total_time, poll_registered, flags,
                   gen, written, got, now, ended>>
    /\ UNCHANGED <<set_vars, ext_vars>>

\* ReadingProc.kill
kill == stop_proc("kill", SIGKILL)

\* ReadingProc.terminate
terminate == stop_proc("terminate", SIGTERM)

\* --------------------------------------------------- the iter_run generator

\* Calling iter_run: _check_started runs at the call; the body runs at the first next.
iter_run(chunk_timeout, total_timeout) ==
    /\ Idle
    /\ IF proc = None THEN
            /\ last' = Called("iter_run", "ProcessIsNotStartedError")
            /\ UNCHANGED gen
       ELSE /\ gen' = [pc |-> "created", chunk_timeout |-> chunk_timeout,
                       total_timeout |-> total_timeout, saved |-> NoFlags]
            /\ last' = Called("iter_run", "generator")
    /\ UNCHANGED <<proc, pid, return_code, chunk_time, total_time, poll_registered,
                   flags, communicated, os, pipes, written, got, now, ended>>
    /\ UNCHANGED <<set_vars, ext_vars>>

\* _init_timeouts that keeps the total time of an earlier iteration.
init_timeouts_once ==
    LET cur_time == now IN
    /\ chunk_time' = Some(cur_time)
    /\ total_time' = IF total_time = None THEN Some(cur_time) ELSE total_time

\* ReadingProc._init_timeouts
init_timeouts ==
    LET cur_time == now IN
    /\ chunk_time' = Some(cur_time)
    /\ total_time' = Some(cur_time)

\* The else branch of iter_run: join, then self._proc = None.
iter_run_completes ==
    /\ poll_registered' = FALSE
    /\ communicated' = TRUE
    /\ pipes' = communicated_pipes
    /\ return_code' = popen_returncode
    /\ proc' = None
    /\ gen' = NoGen
    /\ last' = Called("next", "StopIteration")
    /\ ended' = "StopIteration"

\* next(generator): the caller resumes the generator.
next ==
    \/ /\ gen.pc = "created"
       /\ init_timeouts
       /\ IF communicated THEN          \* registering a closed pipe fails
               /\ gen' = NoGen
               /\ last' = Called("next", "ValueError")
               /\ ended' = "ValueError"
               /\ UNCHANGED poll_registered
          ELSE /\ gen' = [gen EXCEPT !.pc = "looping"]
               /\ poll_registered' = TRUE
               /\ last' = [Called("next", "started") EXCEPT !.at = now]
               /\ UNCHANGED ended
       /\ UNCHANGED <<proc, pid, return_code, flags, communicated, os, pipes, written,
                      got, now>>
       /\ UNCHANGED <<set_vars, ext_vars>>
    \/ /\ gen.pc = "yielded"            \* leaves the with _unblock_read block
       /\ flags' = gen.saved
       /\ gen' = [gen EXCEPT !.pc = "looping"]
       /\ last' = Called("next", "resumed")
       /\ UNCHANGED <<proc, pid, return_code, chunk_time, total_time, poll_registered,
                      communicated, os, pipes, written, got, now, ended>>
       /\ UNCHANGED <<set_vars, ext_vars>>
    \/ /\ gen.pc = "yieldedFinal"
       /\ flags' = gen.saved
       /\ iter_run_completes
       /\ UNCHANGED <<pid, chunk_time, total_time, os, written, got, now>>
       /\ UNCHANGED <<set_vars, ext_vars>>

\* A ProcessData handed to the caller by a yield.
Yielded(result) ==
    [Called("next", "ProcessData") EXCEPT !.stdout = result.stdout,
                                          !.stderr = result.stderr]

\* The bytes handed to the caller so far, with one more ProcessData.
Handed(result) ==
    [stdout |-> got.stdout \o result.stdout, stderr |-> got.stderr \o result.stderr]

\* iter_run without the read after the loop.
final_read_skipped == None

\* The read after the loop, when the process has exited.
final_read == yield_ready_read

\* One turn of the generator's code between two yields.
cycle ==
    /\ gen.pc = "looping"
    /\ IF popen_poll = None THEN        \* while self._proc.poll() is None
            LET result == yield_ready_read
                raised == check_timeouts(gen.chunk_timeout, gen.total_timeout)
            IN  /\ pipes' = drained
                /\ IF raised # "ok" THEN
                        /\ gen' = NoGen
                        /\ poll_registered' = FALSE
                        /\ last' = [Called("next", raised) EXCEPT
                                        !.at = now,
                                        !.chunk_timeout = gen.chunk_timeout,
                                        !.total_timeout = gen.total_timeout]
                        /\ ended' = raised
                        /\ UNCHANGED <<chunk_time, flags, got>>
                   ELSE IF result # None THEN
                        /\ update_chunk_time
                        /\ gen' = [gen EXCEPT !.pc = "yielded", !.saved = flags]
                        /\ flags' = unblocked
                        /\ got' = Handed(The(result))
                        /\ last' = Yielded(The(result))
                        /\ UNCHANGED <<poll_registered, ended>>
                   ELSE UNCHANGED <<chunk_time, gen, poll_registered, flags, got, last,
                                    ended>>
                /\ UNCHANGED <<proc, return_code, communicated>>
       ELSE LET result == final_read
            IN  IF result # None THEN
                    /\ pipes' = drained
                    /\ gen' = [gen EXCEPT !.pc = "yieldedFinal", !.saved = flags]
                    /\ flags' = unblocked
                    /\ got' = Handed(The(result))
                    /\ last' = Yielded(The(result))
                    /\ UNCHANGED <<proc, return_code, chunk_time, poll_registered,
                                   communicated, ended>>
                ELSE
                    /\ iter_run_completes
                    /\ UNCHANGED <<chunk_time, flags, got>>
    /\ UNCHANGED <<pid, total_time, os, written, now>>
    /\ UNCHANGED <<set_vars, ext_vars>>

\* The caller drops the generator at a yield (break, an exception in the loop body):
\* GeneratorExit is raised at the yield and leaves through the with blocks.
close ==
    /\ gen.pc \in {"created", "yielded", "yieldedFinal"}
    /\ flags' = IF gen.pc = "created" THEN flags ELSE gen.saved
    /\ poll_registered' = FALSE
    /\ gen' = NoGen
    /\ last' = Called("close", "GeneratorExit")
    /\ ended' = "GeneratorExit"
    /\ UNCHANGED <<proc, pid, return_code, chunk_time, total_time, communicated, os,
                   pipes, written, got, now>>
    /\ UNCHANGED <<set_vars, ext_vars>>

\* ------------------------------------------------------------ ReadingSet

\* ReadingSet.__init__(s): the driver is built over any set; no element is checked.
rs_init(s) ==
    /\ rs_last.op = "init"
    /\ rs_set' = s
    /\ active_procs' = None
    /\ rs_last' = SetCalled("ReadingSet", "left", "set", s, "ok", None)
    /\ UNCHANGED <<rs_gen, member>>
    /\ UNCHANGED <<timeout_proc, rs_parked, rs_hist>>
    /\ UNCHANGED <<proc_vars, ext_vars>>

\* The caller starts a member: ReadingProc.start.
MemberStart(p) ==
    /\ member[p] = "unstarted"
    /\ member' = [member EXCEPT ![p] = "running"]
    /\ UNCHANGED <<rs_set, active_procs, rs_gen, rs_last>>
    /\ UNCHANGED <<timeout_proc, rs_parked, rs_hist>>
    /\ UNCHANGED <<proc_vars, ext_vars>>

\* A member's process exits; the member keeps its handle.
MemberExit(p) ==
    /\ member[p] = "running"
    /\ member' = [member EXCEPT ![p] = "exited"]
    /\ UNCHANGED <<rs_set, active_procs, rs_gen, rs_last>>
    /\ UNCHANGED <<timeout_proc, rs_parked, rs_hist>>
    /\ UNCHANGED <<proc_vars, ext_vars>>

\* The caller kills a started member: ReadingProc.kill leaves it without a handle.
MemberKill(p) ==
    /\ member[p] \in {"running", "exited"}
    /\ member' = [member EXCEPT ![p] = "unstarted"]
    /\ UNCHANGED <<rs_set, active_procs, rs_gen, rs_last>>
    /\ UNCHANGED <<timeout_proc, rs_parked, rs_hist>>
    /\ UNCHANGED <<proc_vars, ext_vars>>

\* The caller starts a member again after its process exited: ReadingProc.start
\* replaces the handle.
MemberRestart(p) ==
    /\ member[p] = "exited"
    /\ member' = [member EXCEPT ![p] = "running"]
    /\ UNCHANGED <<rs_set, active_procs, rs_gen, rs_last>>
    /\ UNCHANGED <<timeout_proc, rs_parked, rs_hist>>
    /\ UNCHANGED <<proc_vars, ext_vars>>

\* ReadingSet._check_item: isinstance(proc, ReadingProc).
check_item(item) == item \in Procs

\* ReadingSet._check_items
check_items(sequence) == \A x \in sequence : check_item(x)

\* ReadingSet._get_other_set: the elements of a ReadingSet or of a plain set.
get_other_set(other) == other

\* The outcome of an operator: an exception, or a new ReadingSet over value.
Raises(exception) == [res |-> exception, value |-> None]
Returns(elements) == [res |-> "ReadingSet", value |-> Some(elements)]

\* _operation_or that does not look at _active_procs.
operation_or_unguarded(self_set, self_active, other) ==
    IF ~check_items(other) THEN Raises("WrongReadingSetItem")
    ELSE Returns(self_set \cup get_other_set(other))

\* ReadingSet._operation_or, on the object holding self_set and self_active.
operation_or(self_set, self_active, other) ==
    IF ~check_items(other) THEN Raises("WrongReadingSetItem")
    ELSE IF self_active # None THEN Raises("DontCallWhenIterRunError")
    ELSE Returns(self_set \cup get_other_set(other))

\* _operation_and refusing to run while _active_procs is set.
operation_and_guarded(self_set, self_active, other) ==
    IF ~check_items(other) THEN Raises("WrongReadingSetItem")
    ELSE IF self_active # None THEN Raises("DontCallWhenIterRunError")
    ELSE Returns(self_set \cap get_other_set(other))

\* ReadingSet._operation_and
operation_and(self_set, self_active, other) ==
    IF ~check_items(other) THEN Raises("WrongReadingSetItem")
    ELSE Returns(self_set \cap get_other_set(other))

\* ReadingSet._operation_sub: the name DontCallInIterRunError is defined nowhere, so
\* the raise statement ends in NameError.
operation_sub(self_active, first, second) ==
    IF ~check_items(first) THEN Raises("WrongReadingSetItem")
    ELSE IF ~check_items(second) THEN Raises("WrongReadingSetItem")
    ELSE IF self_active # None THEN Raises("NameError")
    ELSE Returns(get_other_set(first) \ get_other_set(second))

\* Which object's method runs for an operator with the driver on one side: the left
\* operand's, unless that is a plain set (set.__or__ returns NotImplemented and the
\* driver's reflected method runs).  Another ReadingSet is not being iterated.
driver_runs(side, kind) == side = "left" \/ kind = "set"

\* The caller holds control: no ReadingSet.iter_run generator is running its code.
SetIdle == rs_gen.pc \in {"none", "created", "yielded"}

\* An operator or method of the driver that changes nothing but the record of the call.
SetCall(op, side, kind, other, outcome) ==
    /\ SetIdle
    /\ rs_last' = SetCalled(op, side, kind, other, outcome.res, outcome.value)
    /\ UNCHANGED <<rs_set, active_procs, rs_gen, member>>
    /\ UNCHANGED <<timeout_proc, rs_parked, rs_hist>>
    /\ UNCHANGED <<proc_vars, ext_vars>>

\* ReadingSet.__or__ / __ror__: driver | other, other | driver.
rs_or(side, kind, other) ==
    SetCall("or", side, kind, other,
            IF driver_runs(side, kind)
            THEN operation_or(rs_set, active_procs, other)
            ELSE operation_or(other, None, rs_set))

\* ReadingSet.__and__ / __rand__: driver & other, other & driver.
rs_and(side, kind, other) ==
    SetCall("and", side, kind, other,
            IF driver_runs(side, kind)
            THEN operation_and(rs_set, active_procs, other)
            ELSE operation_and(other, None, rs_set))

\* ReadingSet.__sub__ / __rsub__: driver - other, other - driver.
rs_sub(side, kind, other) ==
    SetCall("sub", side, kind, other,
            IF side = "left" THEN operation_sub(active_procs, rs_set, other)
            ELSE IF kind = "set" THEN operation_sub(active_procs, other, rs_set)
            ELSE operation_sub(None, other, rs_set))

\* ReadingSet.__eq__: driver == other, other == driver (a plain set on the left has
\* no answer for a ReadingSet, so the driver's method runs with the operands swapped).
\* Nothing is checked; the elements are compared.
rs_eq(side, kind, other) ==
    SetCall("eq", side, kind, other,
            [res |-> IF rs_set = get_other_set(other) THEN "True" ELSE "False",
             value |-> None])

\* ReadingSet.__contains__
rs_contains(item) ==
    SetCall("contains", "left", "set", {item},
            IF ~check_item(item) THEN Raises("WrongReadingSetItem")
            ELSE IF item \in rs_set THEN [res |-> "True", value |-> None]
            ELSE [res |-> "False", value |-> None])

\* ReadingSet.add
rs_add(item) ==
    /\ SetIdle
    /\ IF ~check_item(item) THEN
            /\ rs_last' = SetCalled("add", "left", "set", {item}, "WrongReadingSetItem", None)
            /\ UNCHANGED rs_set
       ELSE /\ rs_set' = rs_set \cup {item}
            /\ rs_last' = SetCalled("add", "left", "set", {item}, "ok", None)
    /\ UNCHANGED <<active_procs, rs_gen, member>>
    /\ UNCHANGED <<timeout_proc, rs_parked, rs_hist>>
    /\ UNCHANGED <<proc_vars, ext_vars>>

\* ReadingSet.remove
rs_remove(item) ==
    /\ SetIdle
    /\ IF ~check_item(item) THEN
            /\ rs_last' = SetCalled("remove", "left", "set", {item}, "WrongReadingSetItem", None)
            /\ UNCHANGED rs_set
       ELSE IF item \notin rs_set THEN
            /\ rs_last' = SetCalled("remove", "left", "set", {item}, "KeyError", None)
            /\ UNCHANGED rs_set
       ELSE /\ rs_set' = rs_set \ {item}
            /\ rs_last' = SetCalled("remove", "left", "set", {item}, "ok", None)
    /\ UNCHANGED <<active_procs, rs_gen, member>>
    /\ UNCHANGED <<timeout_proc, rs_parked, rs_hist>>
    /\ UNCHANGED <<proc_vars, ext_vars>>

\* TimeoutProc.__init__: the member is built as a TimeoutProc with its own timeouts.
TimeoutProc(p, total_timeout, chunk_timeout) ==
    /\ rs_last.op = "init"
    /\ timeout_proc[p] = None
    /\ timeout_proc' = [timeout_proc EXCEPT ![p] =
                            Some([total_timeout |-> total_timeout,
                                  chunk_timeout |-> chunk_timeout])]
    /\ UNCHANGED <<rs_set, active_procs, rs_gen, member, rs_last, rs_parked, rs_hist>>
    /\ UNCHANGED <<proc_vars, ext_vars>>

\* _extract_timeout_arg that never looks at the member.
extract_timeout_arg_default(p, timeout_field, default_timeout) == default_timeout

\* ReadingSet._extract_timeout_arg
extract_timeout_arg(p, timeout_field, default_timeout) ==
    IF timeout_proc[p] # None THEN
        LET proc_timeout == The(timeout_proc[p])[timeout_field] IN
            IF proc_timeout = None THEN default_timeout ELSE proc_timeout
    ELSE default_timeout

\* ReadingSet._extract_total_timeout
extract_total_timeout(p, default_total_timeout) ==
    extract_timeout_arg(p, "total_timeout", default_total_timeout)

\* ReadingSet._extract_chunk_timeout
extract_chunk_timeout(p, default_chunk_timeout) ==
    extract_timeout_arg(p, "chunk_timeout", default_chunk_timeout)

\* ReadingItemTimeoutTimes.is_total_timeout
is_total_timeout(timeout_time, total_timeout) ==
    now - timeout_time.total_timeout_time > total_timeout

\* ReadingItemTimeoutTimes.is_chunk_timeout
is_chunk_timeout(timeout_time, chunk_timeout) ==
    now - timeout_time.chunk_timeout_time > chunk_timeout

\* The timeout branches with the chunk timeout tested first.
timeout_item_chunk_first(timeout_time, use_total_timeout, use_chunk_timeout) ==
    IF use_chunk_timeout # None /\ is_chunk_timeout(timeout_time, The(use_chunk_timeout))
    THEN "ChunkTimeout"
    ELSE IF use_total_timeout # None
            /\ is_total_timeout(timeout_time, The(use_total_timeout))
    THEN "TotalTimeout"
    ELSE "none"

\* ReadingSet.iter_run, the branches taken when read() returned None: the item to
\* yield, if any.
timeout_item(timeout_time, use_total_timeout, use_chunk_timeout) ==
    IF use_total_timeout # None /\ is_total_timeout(timeout_time, The(use_total_timeout))
    THEN "TotalTimeout"
    ELSE IF use_chunk_timeout # None
            /\ is_chunk_timeout(timeout_time, The(use_chunk_timeout))
    THEN "ChunkTimeout"
    ELSE "none"

\* ReadingItemTimeoutTimes.reset_total_timeout / reset_chunk_timeout after the item.
reset_timeout(timeout_time, item) ==
    IF item = "TotalTimeout" THEN [timeout_time EXCEPT !.total_timeout_time = now]
    ELSE IF item = "ChunkTimeout" THEN [timeout_time EXCEPT !.chunk_timeout_time = now]
    ELSE timeout_time

\* Calling ReadingSet.iter_run: a generator; its body has not begun.
rs_iter_run(total_timeout, chunk_timeout) ==
    /\ rs_gen.pc = "none"
    /\ rs_gen' = [NoSetGen EXCEPT !.pc = "created", !.total_timeout = total_timeout,
                                  !.chunk_timeout = chunk_timeout]
    /\ rs_last' = SetCalled("iter_run", "left", "set", {}, "generator", None)
    /\ UNCHANGED <<rs_set, active_procs, member, timeout_proc, rs_parked, rs_hist>>
    /\ UNCHANGED <<proc_vars, ext_vars>>

\* next(generator): the first one sets _active_procs to a copy of _set and gives
\* every element its timers, both started now.
rs_next ==
    /\ \/ /\ rs_gen.pc = "created"
          /\ active_procs' = Some(rs_set)
          /\ rs_gen' = [rs_gen EXCEPT
                            !.pc = "looping",
                            !.timeout_times =
                                [p \in rs_set |-> [total_timeout_time |-> now,
                                                   chunk_timeout_time |-> now]]]
          /\ rs_hist' = [NoSetHist EXCEPT !.started = rs_set]
          /\ rs_last' = SetCalled("next", "left", "set", {}, "started", None)
       \/ /\ rs_gen.pc = "yielded"
          /\ rs_gen' = [rs_gen EXCEPT !.pc = "looping"]
          /\ rs_last' = SetCalled("next", "left", "set", {}, "resumed", None)
          /\ UNCHANGED <<active_procs, rs_hist>>
    /\ UNCHANGED <<rs_set, member, timeout_proc, rs_parked>>
    /\ UNCHANGED <<proc_vars, ext_vars>>

\* History: one more visit of p in the running cycle.
Visited(p) == [rs_hist EXCEPT !.visits[p] = Min(@ + 1, 2)]

\* History: one more visit of p, which ended in an item with an exception.
Reported(p) == [Visited(p) EXCEPT !.ends[p] = Min(@ + 1, 2)]

\* The generator leaves by an exception that its code does not catch.
rs_escapes(exception, p) ==
    /\ rs_gen' = NoSetGen
    /\ rs_last' = SetCalled("next", "left", "set", {p}, exception, None)
    /\ rs_hist' = NoSetHist
    /\ UNCHANGED active_procs

\* The generator yields (proc, ReadingItemData) for p.
rs_yields(item, p) ==
    /\ rs_gen' = [rs_gen EXCEPT !.pc = "yielded", !.todo = @ \ {p}]
    /\ rs_last' = SetCalled("next", "left", "set", {p}, item, None)

\* _active_procs with proc taken out, and left as it was.
deactivated_kept(active, p) == active
deactivated(active, p) == active \ {p}

\* self._active_procs.remove(proc), the timer reset of a timeout, and the yield of the
\* item with the exception.  None has no remove; set.remove of an absent element
\* raises KeyError.
rs_deactivates(item, p) ==
    IF active_procs = None THEN rs_escapes("AttributeError", p)
    ELSE IF p \notin The(active_procs) THEN rs_escapes("KeyError", p)
    ELSE /\ active_procs' = Some(deactivated(The(active_procs), p))
         /\ rs_gen' = [rs_gen EXCEPT !.pc = "yielded", !.todo = @ \ {p},
                                     !.timeout_times[p] = reset_timeout(@, item)]
         /\ rs_last' = SetCalled("next", "left", "set", {p}, item, None)
         /\ rs_hist' = Reported(p)

\* The body of the for loop for one element of active_procs_copy, from what its
\* proc.read() ended with: ProcessIsDeadError is caught and reported, any other
\* exception leaves the generator, data is yielded, and None brings the timers in.
rs_visit_read(p, result) ==
    IF result \in {"AttributeError", "ProcessIsNotStartedError"}
    THEN rs_escapes(result, p)
    ELSE IF result = "ProcessIsDeadError" THEN rs_deactivates("ProcEnd", p)
    ELSE IF result = "ProcessData"
         THEN /\ rs_yields("ProcessData", p)
              /\ rs_hist' = Visited(p)
              /\ UNCHANGED active_procs
    ELSE IF p \notin DOMAIN rs_gen.timeout_times THEN rs_escapes("KeyError", p)
    ELSE LET item == timeout_item(rs_gen.timeout_times[p],
                                  extract_total_timeout(p, rs_gen.total_timeout),
                                  extract_chunk_timeout(p, rs_gen.chunk_timeout))
         IN IF item # "none" THEN rs_deactivates(item, p)
            ELSE /\ rs_gen' = [rs_gen EXCEPT !.todo = @ \ {p}]
                 /\ rs_hist' = Visited(p)
                 /\ UNCHANGED <<active_procs, rs_last>>

\* What read() of a member known by its process's state can end with.  An object that
\* is no ReadingProc has no read; read() raises ProcessIsNotStartedError without a
\* handle and ProcessIsDeadError for an exited process; of a live process it returns
\* data or None.
member_read(p) ==
    IF ~check_item(p) THEN {"AttributeError"}
    ELSE IF member[p] = "unstarted" THEN {"ProcessIsNotStartedError"}
    ELSE IF member[p] = "exited" THEN {"ProcessIsDeadError"}
    ELSE {"ProcessData", "None"}

\* The body of the for loop for one element of active_procs_copy.
rs_visit(p) == \E result \in member_read(p) : rs_visit_read(p, result)

\* The body of the for loop for the member that is the ReadingProc object with its
\* process and pipes: proc.read() is that object's read.
rs_visit_proc(p) ==
    /\ read_call
    /\ rs_visit_read(p, last'.res)

\* The for loop running over all members.
active_procs_copy_members(active) == rs_set

\* active_procs_copy = set(self._active_procs)
active_procs_copy(active) == active

\* The test of the while loop with the for loop finished: the generator ends (the
\* length of None is a TypeError), or a cycle begins with the copy of _active_procs.
rs_while ==
    IF active_procs = None THEN
         /\ rs_gen' = NoSetGen
         /\ rs_last' = SetCalled("next", "left", "set", {}, "TypeError", None)
         /\ rs_hist' = NoSetHist
         /\ UNCHANGED active_procs
    ELSE IF The(active_procs) = {} THEN
         /\ active_procs' = None
         /\ rs_gen' = NoSetGen
         /\ rs_last' = SetCalled("next", "left", "set", {}, "StopIteration", None)
         /\ rs_hist' = NoSetHist
    ELSE /\ rs_gen' = [rs_gen EXCEPT !.todo = active_procs_copy(The(active_procs))]
         /\ rs_hist' = [rs_hist EXCEPT !.cycle = The(active_procs),
                                       !.visits = [p \in Procs |-> 0]]
         /\ UNCHANGED <<active_procs, rs_last>>

\* The generator's code up to its next yield or its end: the test of the while loop
\* and the copy of _active_procs, or the visit of one element of that copy.
rs_cycle ==
    /\ rs_gen.pc = "looping"
    /\ IF rs_gen.todo # {} THEN \E p \in rs_gen.todo : rs_visit(p)
       ELSE rs_while
    /\ UNCHANGED <<rs_set, member, timeout_proc, rs_parked>>
    /\ UNCHANGED <<proc_vars, ext_vars>>

\* The same with the ReadingProc object as the member.
rs_cycle_proc ==
    /\ rs_gen.pc = "looping"
    /\ IF rs_gen.todo # {} THEN \E p \in rs_gen.todo : rs_visit_proc(p)
       ELSE rs_while /\ UNCHANGED proc_vars
    /\ UNCHANGED <<rs_set, member, timeout_proc, rs_parked>>
    /\ UNCHANGED ext_vars

\* The caller drops the generator (break, close): GeneratorExit at the yield; the
\* code has no finally clause.
rs_close ==
    /\ rs_gen.pc \in {"created", "yielded"}
    /\ rs_gen' = NoSetGen
    /\ rs_last' = SetCalled("close", "left", "set", {}, "GeneratorExit", None)
    /\ rs_hist' = NoSetHist
    /\ UNCHANGED <<rs_set, active_procs, member, timeout_proc, rs_parked>>
    /\ UNCHANGED <<proc_vars, ext_vars>>

\* return_back putting every member back.
returned_back_members(active, p) == active \cup rs_set

\* self._active_procs |= {proc}
returned_back(active, p) == active \cup {p}

\* ReadingSet.return_back: None |= {proc} is a TypeError.
rs_return_back(p) ==
    /\ SetIdle
    /\ IF p \notin rs_set THEN
            /\ rs_last' = SetCalled("return_back", "left", "set", {p},
                                    "NotInReadingSetError", None)
            /\ UNCHANGED <<active_procs, rs_hist>>
       ELSE IF active_procs = None THEN
            /\ rs_last' = SetCalled("return_back", "left", "set", {p}, "TypeError", None)
            /\ UNCHANGED <<active_procs, rs_hist>>
       ELSE /\ active_procs' = Some(returned_back(The(active_procs), p))
            /\ rs_last' = SetCalled("return_back", "left", "set", {p}, "ok", None)
            /\ rs_hist' = [rs_hist EXCEPT !.returned = @ \cup {p}]
    /\ UNCHANGED <<rs_set, rs_gen, member, timeout_proc, rs_parked>>
    /\ UNCHANGED <<proc_vars, ext_vars>>

\* ReadingProc.alive of a member.
member_alive(p) == member[p] = "running"

\* ReadingSet.get_all, get_alive, get_dead: the elements of the ReadingSet returned.
get_all == rs_set
get_alive == {x \in rs_set : member_alive(x)}
get_dead == {x \in rs_set : ~member_alive(x)}

\* Calls of get_all, get_alive and get_dead; an object that is no ReadingProc has no
\* attribute alive.
rs_get_all == SetCall("get_all", "left", "set", {}, Returns(get_all))

rs_get_alive ==
    SetCall("get_alive", "left", "set", {},
            IF check_items(rs_set) THEN Returns(get_alive) ELSE Raises("AttributeError"))

rs_get_dead ==
    SetCall("get_dead", "left", "set", {},
            IF check_items(rs_set) THEN Returns(get_dead) ELSE Raises("AttributeError"))

\* The members after the method was called on each of done.
members_set(done, state) == [p \in Procs |-> IF p \in done THEN state ELSE member[p]]

\* ReadingSet.start_all: start() of every member, in the order the set gives them,
\* up to an object that has no start.  The record names the members started.
rs_start_all ==
    /\ SetIdle
    /\ IF check_items(rs_set) THEN
            /\ member' = members_set(rs_set, "running")
            /\ rs_last' = SetCalled("start_all", "left", "set", rs_set, "ok", None)
       ELSE \E done \in SUBSET (rs_set \cap Procs) :
            /\ member' = members_set(done, "running")
            /\ rs_last' = SetCalled("start_all", "left", "set", done, "AttributeError", None)
    /\ UNCHANGED <<rs_set, active_procs, rs_gen, timeout_proc, rs_parked, rs_hist>>
    /\ UNCHANGED <<proc_vars, ext_vars>>

\* _stop_all calling the method on every member.
stop_all_calls_every(p) == TRUE

\* ReadingSet._stop_all: if proc.alive
stop_all_calls(p) == member_alive(p)

\* ReadingSet._stop_all: kill() or terminate() of the members chosen, in the order the
\* set gives them, up to an object that has no attribute alive or a member without a
\* handle (_stop_proc raises ProcessIsNotStartedError for it).  The record names the
\* members stopped.
stop_all(method_name) ==
    /\ SetIdle
    /\ LET called == {p \in rs_set \cap Procs : stop_all_calls(p)}
           refused == {p \in called : member[p] = "unstarted"}
       IN IF check_items(rs_set) /\ refused = {} THEN
               /\ member' = members_set(called, "unstarted")
               /\ rs_last' = SetCalled(method_name, "left", "set", called, "ok", None)
          ELSE \E done \in SUBSET (called \ refused) :
               /\ member' = members_set(done, "unstarted")
               /\ rs_last' = SetCalled(method_name, "left", "set", done,
                                       IF check_items(rs_set)
                                       THEN "ProcessIsNotStartedError"
                                       ELSE "AttributeError", None)
    /\ UNCHANGED <<rs_set, active_procs, rs_gen, timeout_proc, rs_parked, rs_hist>>
    /\ UNCHANGED <<proc_vars, ext_vars>>

\* ReadingSet.kill_all
kill_all == stop_all("kill_all")

\* ReadingSet.terminate_all
terminate_all == stop_all("terminate_all")

\* The caller holds two generators of the driver and turns from one to the other.
rs_switch ==
    /\ SetIdle
    /\ rs_gen # rs_parked
    /\ rs_gen' = rs_parked
    /\ rs_parked' = rs_gen
    /\ rs_hist' = NoSetHist
    /\ UNCHANGED <<rs_set, active_procs, member, rs_last, timeout_proc>>
    /\ UNCHANGED <<proc_vars, ext_vars>>

\* ------------------------------------------------- _read_while on a descriptor

\* What one os.read(fp.fileno(), read_chunk) can meet: bytes (none at the end of the
\* file), or an OSError: EAGAIN when the non-blocking descriptor has nothing to read,
\* EIO for a failure of the read itself.
OsRead(chunk) == [chunk |-> chunk, errno |-> "none"]
OsError(errno) == [chunk |-> <<>>, errno |-> errno]
ReadOutcomes ==
    {OsRead(<<>>), OsRead(<<1>>), OsRead(<<2>>), OsError("EAGAIN"), OsError("EIO")}

\* The descriptors: the os.read calls to come, at most MaxReads of them scripted; a
\* descriptor whose script is over has nothing to read.
RECURSIVE Scripts(_)
Scripts(n) ==
    IF n = 0 THEN {<<>>}
    ELSE Scripts(n - 1) \cup {Append(sc, o) : sc \in Scripts(n - 1), o \in ReadOutcomes}

\* ReadingProc._read_while: the loop over os.read.  A chunk of 0 bytes breaks the
\* loop, and so does every OSError, whatever its errno; buff is returned.  The result
\* names the bytes returned, the exception raised, and the reads not yet made.
RECURSIVE read_while_os(_, _)
read_while_os(buff, reads) ==
    IF reads = <<>> THEN [buff |-> buff, raised |-> "none", rest |-> <<>>]
    ELSE LET chunk == Head(reads) IN
         IF chunk.errno # "none"
         THEN [buff |-> buff, raised |-> "none", rest |-> Tail(reads)]
         ELSE IF Len(chunk.chunk) = 0
              THEN [buff |-> buff, raised |-> "none", rest |-> Tail(reads)]
         ELSE read_while_os(buff \o chunk.chunk, Tail(reads))

\* The caller's self._read_while(fp) on the descriptor.
call_read_while ==
    /\ fd # <<>>
    /\ LET res == read_while_os(<<>>, fd) IN
        /\ read_res' = Some([reads |-> fd, buff |-> res.buff, raised |-> res.raised])
        /\ fd' = res.rest
    /\ UNCHANGED <<proc_vars, set_vars, mgr_vars>>

\* ------------------------------------------------------ ThreadStdinManager
\* One caller thread calls the manager's methods, one at a time; the threads the
\* manager created run _job beside it.  The children are the members p1 and p2,
\* known by their processes' states.

\* The thread self._t has not left _job: Thread.is_alive().
is_alive == mgr_t # None /\ jobs[The(mgr_t)].pc # "done"

\* ThreadStdinManager.alive
mgr_alive == mgr_t # None

\* A call on the manager and how it ended, with what it found: _t set, and the thread
\* still in _job.
ManagerCalled(op, res) ==
    [op |-> op, res |-> res, started |-> mgr_t # None, running |-> is_alive]

\* ReadingProc.send_stdin called by _job: without a handle _check_started raises
\* ProcessIsNotStartedError, the pipe of an exited process raises BrokenPipeError
\* (an IOError), a running process gets the bytes.
member_send_stdin(p) ==
    IF member[p] = "unstarted" THEN "ProcessIsNotStartedError"
    ELSE IF member[p] = "exited" THEN "BrokenPipeError"
    ELSE "ok"

\* _job: messages.get(timeout=job_timeout) gives the first message of the queue, or
\* raises Empty after job_timeout, which is passed over.
job_get(i) ==
    /\ jobs[i].pc = "get"
    /\ IF messages # <<>>
       THEN /\ jobs' = [jobs EXCEPT ![i] = [pc |-> "send_stdin",
                                            message |-> Some(Head(messages))]]
            /\ messages' = Tail(messages)
       ELSE /\ jobs' = [jobs EXCEPT ![i].pc = "finally"]
            /\ UNCHANGED messages
    /\ UNCHANGED <<mgr_t, q_exit, stopping, mgr_last, passed>>
    /\ UNCHANGED <<proc_vars, set_vars, io_vars>>

\* _job: proc.send_stdin(msg).  IOError and ProcessIsDeadError make the thread
\* return; any other exception leaves _job through the finally clause, which returns
\* or lets it end the thread; after a message sent the finally clause is next.
job_send_stdin(i) ==
    /\ jobs[i].pc = "send_stdin"
    /\ LET message == The(jobs[i].message) IN
        /\ passed' = passed \cup {message.msg}
        /\ jobs' = [jobs EXCEPT ![i] =
                        [pc |-> IF member_send_stdin(message.proc) = "ok"
                                THEN "finally" ELSE "done",
                         message |-> None]]
    /\ UNCHANGED <<mgr_t, q_exit, messages, stopping, mgr_last>>
    /\ UNCHANGED <<proc_vars, set_vars, io_vars>>

\* _job: finally: if q_exit.qsize() > 0: return; otherwise the loop goes on.
job_finally(i) ==
    /\ jobs[i].pc = "finally"
    /\ jobs' = [jobs EXCEPT ![i].pc = IF q_exit > 0 THEN "done" ELSE "get"]
    /\ UNCHANGED <<mgr_t, q_exit, messages, stopping, mgr_last, passed>>
    /\ UNCHANGED <<proc_vars, set_vars, io_vars>>

\* One step of the thread i, once it is created.
job(i) == i \in DOMAIN jobs /\ (job_get(i) \/ job_send_stdin(i) \/ job_finally(i))

\* ThreadStdinManager.start
mgr_start ==
    /\ stopping.pc = "none"
    /\ IF mgr_t # None
       THEN /\ mgr_last' = ManagerCalled("start", "ThreadStdinManagerAlreadyStartedError")
            /\ UNCHANGED <<mgr_t, jobs>>
       ELSE /\ Len(jobs) < MaxWorkers
            /\ jobs' = Append(jobs, [pc |-> "get", message |-> None])
            /\ mgr_t' = Some(Len(jobs) + 1)
            /\ mgr_last' = ManagerCalled("start", "ok")
    /\ UNCHANGED <<q_exit, messages, stopping, passed>>
    /\ UNCHANGED <<proc_vars, set_vars, io_vars>>

\* send_stdin refusing the message when the thread has left _job.
send_stdin_refused_when_dead == ~is_alive

\* ThreadStdinManager.send_stdin: if self._t is None
send_stdin_refused == mgr_t = None

\* ThreadStdinManager.send_stdin; the messages are numbered in the order accepted.
mgr_send_stdin(p) ==
    /\ stopping.pc = "none"
    /\ IF send_stdin_refused
       THEN /\ mgr_last' = ManagerCalled("send_stdin", "ThreadStdinManagerNotAliveError")
            /\ UNCHANGED messages
       ELSE IF Len(messages) >= max_len
       THEN /\ mgr_last' = ManagerCalled("send_stdin", "ThreadStdinManagerFullBufferError")
            /\ UNCHANGED messages
       ELSE LET msg == Cardinality(passed) + Len(messages)
                       + Cardinality({i \in DOMAIN jobs : jobs[i].message # None}) + 1
            IN  /\ msg <= MaxMessages
                /\ messages' = Append(messages, [proc |-> p, msg |-> msg])
                /\ mgr_last' = ManagerCalled("send_stdin", "ok")
    /\ UNCHANGED <<mgr_t, q_exit, jobs, stopping, passed>>
    /\ UNCHANGED <<proc_vars, set_vars, io_vars>>

\* ThreadStdinManager.stop up to self._t.join(timeout): the exit request is put in
\* the queue (put_nowait on the full queue raises Full).
mgr_stop(timeout) ==
    /\ stopping.pc = "none"
    /\ IF mgr_t = None
       THEN /\ mgr_last' = ManagerCalled("stop", "ThreadStdinManagerAlreadyStoppedError")
            /\ UNCHANGED <<q_exit, stopping>>
       ELSE IF q_exit >= 1
       THEN /\ mgr_last' = ManagerCalled("stop", "Full")
            /\ UNCHANGED <<q_exit, stopping>>
       ELSE /\ q_exit' = q_exit + 1
            /\ stopping' = [pc |-> "join", timeout |-> timeout]
            /\ mgr_last' = ManagerCalled("stop", "joining")
    /\ UNCHANGED <<mgr_t, messages, jobs, passed>>
    /\ UNCHANGED <<proc_vars, set_vars, io_vars>>

\* stop: self._t.join(timeout) returns when the thread has ended or, with a timeout,
\* when the time is over.
mgr_join ==
    /\ stopping.pc = "join"
    /\ ~is_alive \/ stopping.timeout # None
    /\ stopping' = [stopping EXCEPT !.pc = "is_alive"]
    /\ UNCHANGED <<mgr_t, q_exit, messages, jobs, mgr_last, passed>>
    /\ UNCHANGED <<proc_vars, set_vars, io_vars>>

\* stop forgetting the thread when the time is over.
stop_timed_out_forgets == None

\* stop: what self._t is after a join that timed out (it is not assigned).
stop_timed_out == mgr_t

\* stop: if not self._t.is_alive(): the request is taken back, _t is set to None and
\* True returned; otherwise the withdrawal is next.
mgr_is_alive ==
    /\ stopping.pc = "is_alive"
    /\ IF ~is_alive
       THEN /\ q_exit' = q_exit - 1
            /\ mgr_t' = None
            /\ stopping' = NoStop
            /\ mgr_last' = ManagerCalled("stop", "True")
       ELSE /\ stopping' = [stopping EXCEPT !.pc = "get_nowait"]
            /\ UNCHANGED <<mgr_t, q_exit, mgr_last>>
    /\ UNCHANGED <<messages, jobs, passed>>
    /\ UNCHANGED <<proc_vars, set_vars, io_vars>>

\* stop: self._q_exit.get_nowait() and return False.
mgr_get_nowait ==
    /\ stopping.pc = "get_nowait"
    /\ q_exit' = q_exit - 1
    /\ mgr_t' = stop_timed_out
    /\ stopping' = NoStop
    /\ mgr_last' = ManagerCalled("stop", "False")
    /\ UNCHANGED <<messages, jobs, passed>>
    /\ UNCHANGED <<proc_vars, set_vars, io_vars>>

\* -------------------------------------------------------- specifications

ChildStep ==
    \/ \E stream \in {"stdout", "stderr"} : ChildWrite(stream)
    \/ \E code \in ExitCodes : ChildExit(code)

\* The life cycle: every method, restarts, iter_run without timeouts.
Next ==
    \/ ChildStep
    \/ start
    \/ send_stdin(Len(pipes.stdin) + 1)
    \/ read
    \/ join
    \/ kill
    \/ terminate
    \/ iter_run(None, None)
    \/ next
    \/ cycle
    \/ close

Spec == Init /\ [][Next]_vars

\* One started child iterated under timeouts while the clock runs.
TimeoutNext ==
    \/ Tick
    \/ ChildStep
    \/ (os.spawned = 0 /\ start)
    \/ \E c \in Timeouts, t \in Timeouts : iter_run(c, t)
    \/ next
    \/ cycle
    \/ close

TimeoutSpec == Init /\ [][TimeoutNext]_vars

\* The process group: a child that leaves background processes, stopped or restarted.
GroupNext ==
    \/ ChildFork
    \/ ChildStep
    \/ start
    \/ join
    \/ kill
    \/ terminate

GroupSpec == Init /\ [][GroupNext]_vars

\* An echo child fed through send_stdin and iterated without timeouts.
EchoNext ==
    \/ ChildEcho
    \/ \E code \in ExitCodes : ChildExit(code)
    \/ (os.spawned = 0 /\ start)
    \/ send_stdin(Len(pipes.stdin) + 1)
    \/ iter_run(None, None)
    \/ next
    \/ cycle
    \/ close

EchoSpec == Init /\ [][EchoNext]_vars

\* The ReadingSet: its operators and methods, and its iteration over members that
\* are started, exit and are killed.
SetNext ==
    \/ \E s \in SUBSET Items : rs_init(s)
    \/ \E p \in Procs : MemberStart(p)
    \/ \E p \in Procs : MemberExit(p)
    \/ \E p \in Procs : MemberKill(p)
    \/ \E side \in {"left", "right"}, kind \in {"set", "ReadingSet"}, other \in Operands :
          \/ rs_or(side, kind, other)
          \/ rs_and(side, kind, other)
          \/ rs_sub(side, kind, other)
          \/ rs_eq(side, kind, other)
    \/ \E item \in Items : rs_contains(item)
    \/ \E item \in Items : rs_add(item)
    \/ \E item \in Items : rs_remove(item)
    \/ rs_iter_run(None, None)
    \/ rs_next
    \/ rs_cycle
    \/ rs_close

SetSpec == Init /\ [][SetNext]_vars

\* The driver's iteration under every combination of timeouts while the clock runs:
\* p1 may be built as a TimeoutProc; the members are started once and exit.
DriverNext ==
    \/ Tick
    \/ \E total_timeout \in Timeouts, chunk_timeout \in Timeouts :
          TimeoutProc("p1", total_timeout, chunk_timeout)
    \/ \E s \in SUBSET Procs : rs_init(s)
    \/ \E p \in Procs : MemberStart(p)
    \/ \E p \in Procs : MemberExit(p)
    \/ \E total_timeout \in Timeouts, chunk_timeout \in Timeouts :
          rs_iter_run(total_timeout, chunk_timeout)
    \/ rs_next
    \/ rs_cycle
    \/ rs_close

DriverSpec == Init /\ [][DriverNext]_vars

\* The driver's iteration with members handed back: the members are started, exit
\* and are started again; the caller calls return_back and add at the yields; one
\* total_timeout for all members while the clock runs.
ReturnNext ==
    \/ Tick
    \/ \E s \in {{"p1"}, Procs} : rs_init(s)
    \/ \E p \in Procs : MemberStart(p)
    \/ \E p \in Procs : MemberExit(p)
    \/ \E p \in Procs : MemberRestart(p)
    \/ \E total_timeout \in Timeouts : rs_iter_run(total_timeout, None)
    \/ rs_next
    \/ rs_cycle
    \/ rs_close
    \/ \E item \in Items : rs_return_back(item)
    \/ \E p \in Procs : rs_add(p)

ReturnSpec == Init /\ [][ReturnNext]_vars

\* The members of a ReadingSet alive and dead: they are started, exit and are killed
\* one by one and all together.
AliveNext ==
    \/ \E s \in SUBSET Items : rs_init(s)
    \/ \E p \in Procs : MemberStart(p)
    \/ \E p \in Procs : MemberExit(p)
    \/ \E p \in Procs : MemberKill(p)
    \/ rs_get_all
    \/ rs_get_alive
    \/ rs_get_dead
    \/ rs_start_all
    \/ kill_all
    \/ terminate_all

AliveSpec == Init /\ [][AliveNext]_vars

\* Two iterations of one ReadingSet at a time: the caller holds two generators and
\* steps now one, now the other, while the members are started and exit.
TwoIterNext ==
    \/ \E s \in SUBSET Procs : rs_init(s)
    \/ \E p \in Procs : MemberStart(p)
    \/ \E p \in Procs : MemberExit(p)
    \/ rs_iter_run(None, None)
    \/ rs_next
    \/ rs_cycle
    \/ rs_close
    \/ rs_switch

TwoIterSpec == Init /\ [][TwoIterNext]_vars

\* _read_while called, again and again, on a descriptor whose reads meet any
\* sequence of chunks, ends of file and errors.
ReadInit ==
    /\ ObjectsInit
    /\ fd \in Scripts(MaxReads)
    /\ read_res = None
    /\ ManagerInit

ReadNext == call_read_while

ReadSpec == ReadInit /\ [][ReadNext]_vars

\* The driver's iteration consumed to its end: the caller calls next() again after
\* every item and calls neither close nor return_back, the generator runs on after
\* every next(), and the clock, followed from the creation of the generator, goes on;
\* a member's process may exit and may run for ever.
LiveTick == rs_gen.pc # "none" /\ Tick

LiveNext ==
    \/ LiveTick
    \/ \E s \in {{"p1"}, Procs} : rs_init(s)
    \/ \E p \in Procs : MemberStart(p)
    \/ \E p \in Procs : MemberExit(p)
    \/ \E total_timeout \in Timeouts : rs_iter_run(total_timeout, None)
    \/ rs_next
    \/ rs_cycle

LiveSpec ==
    /\ Init
    /\ [][LiveNext]_vars
    /\ WF_vars(LiveTick)
    /\ WF_vars(rs_next)
    /\ WF_vars(rs_cycle)

\* The driver iterating the ReadingProc object: the ReadingSet holds it as its one
\* member p1; the caller starts it, its process writes and exits, and the iteration
\* (without timeouts) is consumed.
FeedNext ==
    \/ rs_init({"p1"})
    \/ start
    \/ \E stream \in {"stdout", "stderr"} : ChildWrite(stream)
    \/ \E code \in ExitCodes : ChildExit(code)
    \/ rs_iter_run(None, None)
    \/ rs_next
    \/ rs_cycle_proc

FeedSpec == Init /\ [][FeedNext]_vars

\* The ThreadStdinManager: the caller starts and stops it, with and without a
\* timeout, and sends messages for children that are started, exit and are killed;
\* every thread it created keeps running, and a stop() entered runs to its return.
ManagerNext ==
    \/ \E p \in Procs : MemberStart(p)
    \/ \E p \in Procs : MemberExit(p)
    \/ \E p \in Procs : MemberKill(p)
    \/ mgr_start
    \/ \E p \in Procs : mgr_send_stdin(p)
    \/ \E timeout \in {None, Some(1)} : mgr_stop(timeout)
    \/ mgr_join
    \/ mgr_is_alive
    \/ mgr_get_nowait
    \/ \E i \in DOMAIN jobs : job_get(i)
    \/ \E i \in DOMAIN jobs : job_send_stdin(i)
    \/ \E i \in DOMAIN jobs : job_finally(i)

ManagerSpec ==
    /\ Init
    /\ [][ManagerNext]_vars
    /\ \A i \in 1..MaxWorkers : WF_vars(job(i))
    /\ WF_vars(mgr_join)
    /\ WF_vars(mgr_is_alive)
    /\ WF_vars(mgr_get_nowait)

\* ------------------------------------------------------------- claims

\* The last call was a next() out of which a timeout was raised.
Raised == last.op = "next" /\ last.res \in {"ChunkTimeout", "TotalTimeout"}

\* The last call ended an iteration by an exception.
EndedByException ==
    /\ last.op \in {"next", "close"}
    /\ last.res \in {"ChunkTimeout", "TotalTimeout", "GeneratorExit"}

\* The process has written nothing and has not exited.
Quiet == written = NoBytes /\ os.status = "running"

\* C1: when iter_run has completed normally (possibly after re-entries that followed
\* timeouts), the bytes yielded for each stream are exactly the bytes the child wrote
\* to it, in order.  Stated for TimeoutSpec, where only iter_run reads the pipes.
C1_NoByteLost ==
    (last.op = "next" /\ last.res = "StopIteration") => got = written

\* C2: an iteration that ends by ChunkTimeout, TotalTimeout or the caller's exception
\* leaves the child as it was (handle kept, no signal sent, not reaped, return_code
\* null, alive unless it exited on its own); iter_run can then be called again, and
\* its first next sets both chunk_time and total_time to the time of that re-entry.
C2_ExceptionKeepsChildAndReentryRestartsTimers ==
    /\ EndedByException =>
          /\ gen.pc = "none"
          /\ proc # None
          /\ return_code = None
          /\ ~communicated
          /\ os.signal = None
          /\ (alive \/ \E code \in ExitCodes : os.code = Some(code))
    /\ (last.op = "iter_run" /\ last.pre \in {"RUNNING", "EXITED"}) =>
          (last.res = "generator" /\ gen.pc = "created")
    /\ last.op = "next" => last.res # "ValueError"
    /\ (last.op = "next" /\ last.res = "started") =>
          (chunk_time = Some(last.at) /\ total_time = Some(last.at))

\* C2 witness: a running child re-entered, later on the clock, after a timeout.
C2_Witness ==
    /\ last.op = "next" /\ last.res = "started" /\ last.at > 0
    /\ ended \in {"ChunkTimeout", "TotalTimeout"}
    /\ State = "RUNNING"

\* C3 as claimed: for a child that writes nothing and does not exit, iter_run yields
\* nothing and raises the timeout with the smaller value.
C3_SmallerTimeoutIsRaised ==
    (Raised /\ Quiet) =>
        LET c == last.chunk_timeout
            t == last.total_timeout
        IN  /\ got = NoBytes
            /\ (c # None /\ (t = None \/ The(c) < The(t))) => last.res = "ChunkTimeout"
            /\ (t # None /\ (c = None \/ The(t) < The(c))) => last.res = "TotalTimeout"

\* C3 amended: for a child that writes nothing and does not exit, iter_run yields
\* nothing; a timeout is raised only after its deadline has passed; ChunkTimeout is
\* raised when c <= t or t is unset, TotalTimeout when c is unset; when t < c,
\* TotalTimeout is raised exactly when the raising cycle runs no later than the chunk
\* deadline, and ChunkTimeout when it runs after both deadlines.
C3_TimeoutRaisedWhenQuiet ==
    (Raised /\ Quiet) =>
        LET c == last.chunk_timeout
            t == last.total_timeout
        IN  /\ got = NoBytes
            /\ last.res = "ChunkTimeout" =>
                  (c # None /\ last.at > The(chunk_time) + The(c))
            /\ last.res = "TotalTimeout" =>
                  (t # None /\ last.at > The(total_time) + The(t))
            /\ (c # None /\ (t = None \/ The(c) <= The(t))) => last.res = "ChunkTimeout"
            /\ c = None => last.res = "TotalTimeout"
            /\ (c # None /\ t # None /\ The(t) < The(c)) =>
                  (last.res = "TotalTimeout" <=> last.at <= The(chunk_time) + The(c))

\* C3 witness: TotalTimeout raised for a quiet child with t < c.
C3_Witness ==
    /\ Raised /\ Quiet /\ last.res = "TotalTimeout"
    /\ last.chunk_timeout # None
    /\ The(last.total_timeout) < The(last.chunk_timeout)

\* C4: when a cycle of iter_run finds both the chunk deadline and the total deadline
\* exceeded, the exception raised is ChunkTimeout.
C4_ChunkTimeoutTakesPrecedence ==
    ( /\ Raised
      /\ last.chunk_timeout # None
      /\ last.total_timeout # None
      /\ last.at > The(chunk_time) + The(last.chunk_timeout)
      /\ last.at > The(total_time) + The(last.total_timeout) )
    => last.res = "ChunkTimeout"

\* C4 witness: both deadlines exceeded in the raising cycle, the chunk deadline
\* counted from an Observation yielded after the iteration began.
C4_Witness ==
    /\ Raised
    /\ last.chunk_timeout # None
    /\ last.total_timeout # None
    /\ last.at > The(chunk_time) + The(last.chunk_timeout)
    /\ last.at > The(total_time) + The(last.total_timeout)
    /\ chunk_time # total_time
    /\ last.res = "ChunkTimeout"

\* C5: every ProcessData returned by read or yielded by iter_run has stdout or stderr
\* non-empty; a call made while both pipes are empty hands over no ProcessData, and
\* read on a live child then returns None.
C5_ObservationIsNeverEmpty ==
    [][ /\ (last' # last /\ last'.res = "ProcessData") =>
              /\ Len(last'.stdout) + Len(last'.stderr) > 0
              /\ (pipes.stdout # <<>> \/ pipes.stderr # <<>>)
        /\ (last' # last /\ pipes.stdout = <<>> /\ pipes.stderr = <<>>) =>
              last'.res # "ProcessData"
        /\ (last' # last /\ last'.op = "read" /\ alive
                /\ pipes.stdout = <<>> /\ pipes.stderr = <<>>) =>
              last'.res = "None"
      ]_vars

\* C5 witness: read returned a ProcessData with stderr bytes and an empty stdout.
C5_Witness ==
    /\ last.op = "read" /\ last.res = "ProcessData"
    /\ last.stdout = <<>>
    /\ Len(last.stderr) > 0

\* C6: return_code is None while the handle is held and the process has not been
\* reaped, whether it runs or has exited; after join returns, and after iter_run
\* completes normally, it is the exit status of the process.
C6_ReturnCodeNullUntilReaped ==
    /\ State \in {"RUNNING", "EXITED"} => return_code = None
    /\ (last.op = "join" /\ last.res = "ok") =>
          (return_code # None /\ return_code = os.code)
    /\ (last.op = "next" /\ last.res = "StopIteration") =>
          (return_code # None /\ return_code = os.code)

\* C6 witness: join reaped a process that had exited with status 1.
C6_Witness ==
    /\ last.op = "join" /\ last.res = "ok" /\ last.pre = "EXITED"
    /\ return_code = Some(1)

\* C7: after kill or terminate on a started child, and after iter_run completed
\* normally, the child is REAPED and alive is false; iter_run called on a REAPED child
\* raises ProcessIsNotStartedError and creates no generator; after start, alive is true
\* while the process has not exited.
C7_ReapedAfterStopOrCompletion ==
    /\ (last.op \in {"kill", "terminate"} /\ last.pre \in {"RUNNING", "EXITED", "JOINED"}) =>
          (last.res = "ok" /\ State = "REAPED" /\ ~alive /\ os.status = "exited")
    /\ (last.op = "next" /\ last.res = "StopIteration") =>
          (State = "REAPED" /\ ~alive /\ os.status = "exited")
    /\ (last.op = "iter_run" /\ last.pre = "REAPED") =>
          (last.res = "ProcessIsNotStartedError" /\ gen.pc = "none")
    /\ (last.op = "start" /\ os.status = "running") => alive

\* C7 witness: iter_run raised ProcessIsNotStartedError on a child reaped by terminate.
C7_Witness ==
    /\ last.op = "iter_run" /\ last.pre = "REAPED"
    /\ last.res = "ProcessIsNotStartedError"
    /\ os.signal = Some(SIGTERM)

\* C8: start on a REAPED child succeeds and gives it a new process, with return_code
\* None and the child RUNNING until that process exits; an iter_run that completes
\* normally has delivered exactly the bytes written by the process started last.
C8_ReapedChildStartsAgain ==
    /\ (last.op = "start" /\ last.pre = "REAPED") =>
          /\ last.res = "ok"
          /\ State \in {"RUNNING", "EXITED"}
          /\ os.status = "running" => State = "RUNNING"
          /\ return_code = None
          /\ proc = Some(os.spawned) /\ pid = Some(os.spawned)
    /\ (last.op = "next" /\ last.res = "StopIteration") =>
          (got = written /\ return_code # None /\ pid = Some(os.spawned))

\* C8 witness: a child whose iter_run had completed was started again and runs.
C8_Witness ==
    /\ last.op = "start" /\ last.pre = "REAPED"
    /\ ended = "StopIteration"
    /\ State = "RUNNING"
    /\ pid = Some(2)

\* C9: start on a RUNNING child fails, spawns no second process and leaves no process
\* behind without an owner.
C9_StartOnRunningIsAnError ==
    (last.op = "start" /\ last.pre = "RUNNING") =>
        (last.res # "ok" /\ os.orphans = 0)

\* C10 as claimed: send_stdin succeeds exactly when the child is RUNNING, and raises
\* ProcessIsNotStartedError in every other state.
C10_SendStdinNotStartedUnlessRunning ==
    last.op = "send_stdin" =>
        /\ last.res = "ok" <=> last.pre = "RUNNING"
        /\ last.pre # "RUNNING" => last.res = "ProcessIsNotStartedError"

\* C10 amended: send_stdin succeeds exactly when the child is RUNNING, and then adds
\* its bytes to the process's stdin; it raises ProcessIsNotStartedError exactly when no
\* process handle is held (NEW, REAPED); with the handle held, the write error
\* propagates: BrokenPipeError when the process has exited and is not reaped,
\* ValueError after join; nothing is written unless it succeeds.
C10_SendStdinByState ==
    [][ (last'.op = "send_stdin" /\ (last' # last \/ pipes'.stdin # pipes.stdin)) =>
            /\ last'.pre = State
            /\ last'.res = "ok" <=> State = "RUNNING"
            /\ last'.res = "ProcessIsNotStartedError" <=> State \in {"NEW", "REAPED"}
            /\ State = "EXITED" => last'.res = "BrokenPipeError"
            /\ State = "JOINED" => last'.res = "ValueError"
            /\ last'.res # "ok" => pipes' = pipes
            /\ last'.res = "ok" =>
                  (/\ Len(pipes'.stdin) = Len(pipes.stdin) + 1
                   /\ pipes'.stdout = pipes.stdout /\ pipes'.stderr = pipes.stderr)
      ]_vars

\* C10 witness: send_stdin to a process that exited and is not reaped.
C10_Witness ==
    /\ last.op = "send_stdin" /\ last.pre = "EXITED"
    /\ last.res = "BrokenPipeError"

\* C11 as claimed: read on a child that is not RUNNING raises ProcessIsDeadError; on a
\* RUNNING child it returns a ProcessData or None.
C11_ReadDeadUnlessRunning ==
    last.op = "read" =>
        /\ last.pre # "RUNNING" => last.res = "ProcessIsDeadError"
        /\ last.pre = "RUNNING" => last.res \in {"ProcessData", "None"}

\* C11 amended: read raises ProcessIsNotStartedError when no process handle is held
\* (NEW, REAPED), ProcessIsDeadError when the handle is held and the process has exited
\* (reaped by join or not); on a RUNNING child it returns a ProcessData or None.
C11_ReadByState ==
    last.op = "read" =>
        /\ last.pre \in {"NEW", "REAPED"} => last.res = "ProcessIsNotStartedError"
        /\ last.pre \in {"EXITED", "JOINED"} => last.res = "ProcessIsDeadError"
        /\ last.pre = "RUNNING" => last.res \in {"ProcessData", "None"}

\* C11 witness: read on a child reaped by kill raised ProcessIsNotStartedError.
C11_Witness ==
    /\ last.op = "read" /\ last.pre = "REAPED"
    /\ last.res = "ProcessIsNotStartedError"
    /\ os.signal = Some(SIGKILL)

\* C12: join stores the exit status in return_code and leaves the child REAPED, so that
\* alive is false; join on a REAPED child returns without raising and leaves
\* return_code as it was.
C12_JoinReapsAndIsIdempotent ==
    /\ (last.op = "join" /\ last.pre \in {"RUNNING", "EXITED"}) =>
          (last.res = "ok" /\ return_code = os.code /\ ~alive /\ State = "REAPED")
    /\ (last.op = "join" /\ last.pre = "REAPED") => last.res = "ok"

\* C13: whenever control is with the caller, the O_NONBLOCK flags of the child's stdout
\* and stderr are as they were before the call: clear when no generator is live or
\* the generator has not begun, and, while the generator is suspended at a yield, as
\* they were when the read cycle was entered.
C13_FlagsRestoredWheneverCallerHasControl ==
    /\ gen.pc \in {"none", "created"} => flags = NoFlags
    /\ gen.pc \in {"yielded", "yieldedFinal"} => flags = gen.saved

\* C14: after kill or terminate returns on a started child, no process of the child's
\* process group is left running, the group leader included, also when the leader had
\* exited before the call.
C14_NoGroupProcessLeftAfterStop ==
    (last.op \in {"kill", "terminate"} /\ last.pre \in {"RUNNING", "EXITED", "JOINED"}) =>
        (last.res = "ok" /\ os.status = "exited" /\ os.group = 0)

\* a is an initial part of b.
IsPrefix(a, b) == Len(a) <= Len(b) /\ a = SubSeq(b, 1, Len(a))

\* C15: the bytes of successive send_stdin calls to a RUNNING echo child are in its
\* stdin in call order, each once (the n-th byte sent is n); what the child echoed and
\* what iter_run has yielded as stdout are initial parts of that sequence, nothing
\* yielded is out of order or repeated, and a completed iter_run has yielded all that
\* was echoed.
C15_StdinBytesComeBackInCallOrder ==
    /\ \A i \in 1..Len(pipes.stdin) : pipes.stdin[i] = i
    /\ Len(pipes.stdin) <= MaxSend
    /\ IsPrefix(written.stdout, pipes.stdin)
    /\ IsPrefix(got.stdout, written.stdout)
    /\ last.res = "ProcessData" => IsPrefix(last.stdout, pipes.stdin) \/
          \E k \in 1..Len(pipes.stdin) :
              last.stdout = SubSeq(pipes.stdin, k, k + Len(last.stdout) - 1)
    /\ ~communicated => got.stdout \o pipes.stdout = written.stdout
    /\ (last.op = "next" /\ last.res = "StopIteration") => got.stdout = written.stdout

\* C15 witness: two bytes sent one after the other came back in one ProcessData.
C15_Witness ==
    /\ last.op = "next" /\ last.res = "ProcessData"
    /\ last.stdout = <<1, 2>>
    /\ pipes.stdin = <<1, 2>>

\* C16 as claimed: at a yield of the driver's iteration (_active_procs is set), the
\* union of the driver, holding ReadingProcs only, and an operand of ReadingProcs
\* raises DontCallWhenIterRunError, whichever side the driver stands on.
C16_UnionRaisesWhileIterating ==
    ( /\ rs_last.op = "or" /\ rs_last.iterating /\ rs_gen.pc = "yielded"
      /\ check_items(rs_last.other) /\ check_items(rs_set) )
    => rs_last.res = "DontCallWhenIterRunError"

\* C16 amended: while _active_procs is set, driver | other raises
\* DontCallWhenIterRunError for an operand of ReadingProcs, and so does other | driver
\* when other is a plain set; when other is a ReadingSet that is not being iterated,
\* other | driver returns the union as a new ReadingSet; in each case the driver's
\* members, _active_procs and generator are left as they were.
C16_UnionByOperandWhileIterating ==
    [][ ( /\ rs_last' # rs_last
          /\ rs_last'.op = "or"
          /\ active_procs # None
          /\ check_items(rs_last'.other) )
        =>
        /\ (rs_last'.side = "left" \/ rs_last'.kind = "set") =>
              rs_last'.res = "DontCallWhenIterRunError"
        /\ (rs_last'.side = "right" /\ rs_last'.kind = "ReadingSet" /\ check_items(rs_set)) =>
              /\ rs_last'.res = "ReadingSet"
              /\ rs_last'.value = Some(rs_last'.other \cup rs_set)
        /\ UNCHANGED <<rs_set, active_procs, rs_gen>>
      ]_vars

\* C16 witness: a plain set | driver raised while the generator was suspended at a yield.
C16_Witness ==
    /\ rs_last.op = "or" /\ rs_last.iterating
    /\ rs_last.side = "right" /\ rs_last.kind = "set"
    /\ rs_last.res = "DontCallWhenIterRunError"
    /\ rs_gen.pc = "yielded"

\* C17: at a yield of the driver's iteration (_active_procs is set), the difference of
\* the driver and an operand of ReadingProcs, run by the driver (driver - other, or a
\* plain set - driver), raises DontCallWhenIterRunError and no other error.
C17_DifferenceRaisesWhileIterating ==
    ( /\ rs_last.op = "sub" /\ rs_last.iterating /\ rs_gen.pc = "yielded"
      /\ (rs_last.side = "left" \/ rs_last.kind = "set")
      /\ check_items(rs_last.other) /\ check_items(rs_set) )
    => rs_last.res = "DontCallWhenIterRunError"

C19_ActiveIsNullWhenNotIterating ==
    (rs_gen.pc = "none" /\ check_items(rs_set)) => active_procs = None

\* C20: |, & and - with an operand that holds an element that is not a ReadingProc raise
\* WrongReadingSetItem, whichever side the driver stands on and whether the operand is
\* a plain set or a ReadingSet; add, remove and the membership test of such an element
\* raise it too.
C20_WrongItemIsRefused ==
    /\ (rs_last.op \in {"or", "and", "sub"} /\ NotAProc \in rs_last.other) =>
          rs_last.res = "WrongReadingSetItem"
    /\ (rs_last.op \in {"add", "remove", "contains"} /\ rs_last.other = {NotAProc}) =>
          rs_last.res = "WrongReadingSetItem"

\* What |, & and - of sets give, with the driver's members on the given side.
SetAlgebra(op, side, other) ==
    IF op = "or" THEN rs_set \cup other
    ELSE IF op = "and" THEN rs_set \cap other
    ELSE IF side = "left" THEN rs_set \ other
    ELSE other \ rs_set

\* C21: with no iteration of the driver in progress, driver | other, driver & other,
\* driver - other and the same with the operands swapped, other a ReadingSet or a
\* plain set of ReadingProcs, return a new ReadingSet holding the union, intersection
\* or difference of the members; and == answers whether the members are equal.
C21_AlgebraOutsideIteration ==
    /\ (/\ rs_gen.pc = "none"
        /\ rs_last.op \in {"or", "and", "sub"}
        /\ check_items(rs_set \cup rs_last.other))
       => /\ rs_last.res = "ReadingSet"
          /\ rs_last.value = Some(SetAlgebra(rs_last.op, rs_last.side, rs_last.other))
    /\ (rs_gen.pc = "none" /\ rs_last.op = "eq")
       => (rs_last.res = "True" <=> rs_set = rs_last.other)

\* The same while _active_procs is None, with | and & giving the same members
\* whichever side the driver stands on.
C21_AlgebraWhenActiveIsNone ==
    /\ (/\ ~rs_last.iterating
        /\ rs_last.op \in {"or", "and", "sub"}
        /\ check_items(rs_set \cup rs_last.other))
       => /\ rs_last.res = "ReadingSet"
          /\ rs_last.value = Some(SetAlgebra(rs_last.op, rs_last.side, rs_last.other))
    /\ rs_last.op = "eq" => (rs_last.res = "True" <=> rs_set = rs_last.other)
    /\ \A other \in Operands :
          (active_procs = None /\ check_items(rs_set \cup other))
          => /\ operation_or(rs_set, active_procs, other) = operation_or(other, None, rs_set)
             /\ operation_and(rs_set, active_procs, other) = operation_and(other, None, rs_set)

\* The items that take a member out of _active_procs.
EndingItems == {"ProcEnd", "TotalTimeout", "ChunkTimeout"}

\* C22: in an iteration of the driver with no return_back, a member is given at most
\* one item with an exception (ProcEnd, TotalTimeout or ChunkTimeout) and after it is
\* neither active nor left to visit; a visit of a member whose process exited yields
\* its ProcEnd; and when the iteration ends normally every member it began with has
\* been given exactly one such item.
C22_OneEndingItemPerMember ==
    /\ [](rs_hist.returned = {} =>
            \A p \in Procs :
                /\ rs_hist.ends[p] <= 1
                /\ rs_hist.ends[p] = 1 =>
                      /\ p \notin rs_gen.todo
                      /\ active_procs # None => p \notin The(active_procs))
    /\ [][/\ \A p \in Procs :
                (/\ rs_hist.returned = {}
                 /\ member[p] = "exited"
                 /\ rs_hist'.visits[p] = rs_hist.visits[p] + 1)
                => /\ rs_last'.res = "ProcEnd"
                   /\ rs_last'.other = {p}
                   /\ rs_hist.ends[p] = 0
                   /\ rs_hist'.ends[p] = 1
          /\ (/\ rs_gen.pc = "looping"
              /\ rs_last'.res = "StopIteration"
              /\ rs_hist.returned = {})
             => \A p \in rs_hist.started : rs_hist.ends[p] = 1
         ]_vars

\* Both members were taken out, one by a timeout and then one by the end of its
\* process, each with one item.
C22_Witness ==
    /\ rs_gen.pc = "yielded"
    /\ rs_last.res = "ProcEnd"
    /\ rs_last.other = {"p2"}
    /\ rs_hist.ends = [p \in Procs |-> 1]
    /\ member["p1"] = "running"
    /\ active_procs = Some({})

\* What next() of the driver's generator ends in when no exception leaves it.
NextResults == {"started", "resumed", "ProcessData", "StopIteration"} \cup EndingItems

\* C23: ReadingSet.iter_run over ReadingProc members never raises because of one
\* member: whatever state a member is in when it is visited (never started, killed
\* between two yields, exited, timed out), next() ends in an item or in the end of
\* the iteration.
C23_NoMemberMakesIterRunRaise ==
    (rs_last.op = "next" /\ check_items(rs_set \cup rs_last.other))
    => rs_last.res \in NextResults

\* The timeout in force for member p: its own when it is a TimeoutProc built with
\* one, otherwise the argument of iter_run.
EffectiveTimeout(p, field) ==
    IF timeout_proc[p] # None /\ The(timeout_proc[p])[field] # None
    THEN The(timeout_proc[p])[field]
    ELSE rs_gen[field]

\* The generator, visiting p, goes from its loop to the yield of item.
YieldsFor(p, item) ==
    /\ rs_gen.pc = "looping"
    /\ rs_gen'.pc = "yielded"
    /\ rs_last'.res = item
    /\ rs_last'.other = {p}

\* The generator visits p and goes on without an item: read() returned None and no
\* timeout was found.
PassesOver(p) ==
    /\ rs_gen.pc = "looping"
    /\ rs_gen'.pc = "looping"
    /\ rs_hist'.visits[p] = rs_hist.visits[p] + 1

\* C24: a TotalTimeout (ChunkTimeout) item for a member is yielded only when the
\* member's effective total_timeout (chunk_timeout) is not null and less than the
\* time on the member's timer, the effective value being the TimeoutProc's own when
\* it has one and the argument of iter_run otherwise; and a visit that yields nothing
\* found no effective timeout exceeded.
C24_EffectiveTimeoutDecides ==
    [][\A p \in Procs :
        LET total == EffectiveTimeout(p, "total_timeout")
            chunk == EffectiveTimeout(p, "chunk_timeout")
            timer == rs_gen.timeout_times[p]
        IN  /\ YieldsFor(p, "TotalTimeout") =>
                  total # None /\ now - timer.total_timeout_time > The(total)
            /\ YieldsFor(p, "ChunkTimeout") =>
                  chunk # None /\ now - timer.chunk_timeout_time > The(chunk)
            /\ PassesOver(p) =>
                  /\ total # None => now - timer.total_timeout_time <= The(total)
                  /\ chunk # None => now - timer.chunk_timeout_time <= The(chunk)
      ]_vars

\* A TimeoutProc's own total_timeout ended its turn although iter_run was given a
\* longer one, while the plain ReadingProc beside it is still active.
C24_Witness ==
    /\ rs_gen.pc = "yielded"
    /\ rs_last.res = "TotalTimeout"
    /\ rs_last.other = {"p1"}
    /\ timeout_proc["p1"] = Some([total_timeout |-> Some(1), chunk_timeout |-> None])
    /\ rs_gen.total_timeout = Some(2)
    /\ now = 2
    /\ active_procs = Some({"p2"})

\* The caller, holding control at a yield, calls return_back.
ReturnBackAtYield ==
    /\ rs_gen.pc = "yielded"
    /\ rs_last'.op = "return_back"
    /\ rs_last' # rs_last \/ active_procs' # active_procs \/ rs_hist' # rs_hist

\* C25: return_back(child) called at a yield of the iteration puts child into
\* _active_procs when child is a member, leaving every other member's place in or
\* out of _active_procs, all timers and what is left of the running cycle as they
\* were, and the next cycle is made over _active_procs, child included; when child is
\* not a member the call raises NotInReadingSetError and changes nothing.
C25_ReturnBackReactivatesMember ==
    [][/\ ReturnBackAtYield =>
            \E child \in Items :
                /\ rs_last'.other = {child}
                /\ UNCHANGED <<rs_set, rs_gen, member, timeout_proc>>
                /\ IF child \in rs_set
                   THEN /\ rs_last'.res = "ok"
                        /\ active_procs' = Some(The(active_procs) \cup {child})
                   ELSE /\ rs_last'.res = "NotInReadingSetError"
                        /\ UNCHANGED active_procs
       /\ (rs_gen.pc = "looping" /\ rs_gen.todo = {} /\ rs_gen'.todo # {})
          => rs_gen'.todo = The(active_procs)
      ]_vars

\* p1 was reported ended, handed back while p2 stayed active, polled again in a later
\* cycle and reported ended a second time.
C25_Witness ==
    /\ rs_gen.pc = "yielded"
    /\ rs_hist.returned = {"p1"}
    /\ rs_hist.ends["p1"] = 2
    /\ rs_hist.ends["p2"] = 0
    /\ rs_last.res = "ProcEnd"
    /\ active_procs = Some({"p2"})
    /\ now > 0

\* C26: get_alive and get_dead of a ReadingSet of ReadingProcs are disjoint and make
\* up get_all, and each call returns just that; kill or terminate of one alive member
\* leaves one member less alive; kill_all and terminate_all do not raise whatever
\* members are dead or were never started, leave those members as they are, and
\* leave no member alive.
C26_AliveAndDeadPartitionMembers ==
    /\ [](check_items(rs_set) =>
            /\ get_alive \cap get_dead = {}
            /\ get_alive \cup get_dead = get_all)
    /\ [][/\ (rs_last' # rs_last /\ check_items(rs_set)) =>
              /\ rs_last'.op = "get_all" => rs_last'.value = Some(get_all)
              /\ rs_last'.op = "get_alive" => rs_last'.value = Some(get_alive)
              /\ rs_last'.op = "get_dead" => rs_last'.value = Some(get_dead)
              /\ rs_last'.op \in {"kill_all", "terminate_all"} =>
                    /\ rs_last'.res = "ok"
                    /\ get_alive' = {}
                    /\ \A p \in Procs :
                          (p \notin rs_set \/ ~member_alive(p)) => member'[p] = member[p]
          /\ \A p \in rs_set \cap Procs :
                (/\ rs_last' = rs_last
                 /\ check_items(rs_set)
                 /\ member_alive(p)
                 /\ member'[p] = "unstarted"
                 /\ \A q \in Procs \ {p} : member'[q] = member[q])
                => Cardinality(get_alive') = Cardinality(get_alive) - 1
         ]_vars

\* kill_all met one member running and one whose process had exited: it stopped the
\* first and passed over the second.
C26_Witness ==
    /\ rs_last.op = "kill_all"
    /\ rs_last.res = "ok"
    /\ rs_set = Procs
    /\ rs_last.other = {"p1"}
    /\ member = [p \in Procs |-> IF p = "p1" THEN "unstarted" ELSE "exited"]

\* The generator has begun its iteration and has not ended it.
InProgress(frame) == frame.pc \in {"looping", "yielded"}

\* The members the iteration of a generator holds active: both generators of the
\* ReadingSet read the one attribute _active_procs.
ActiveOf(frame) ==
    IF InProgress(frame) /\ active_procs # None THEN The(active_procs) ELSE {}

\* C27: of two iterations of the ReadingSet in progress at once, no member is in the
\* active set of both, and one of them ending leaves the active set of the other as
\* it was.
C27_ChildInOneIterationAtATime ==
    /\ [](ActiveOf(rs_gen) \cap ActiveOf(rs_parked) = {})
    /\ [][(/\ InProgress(rs_parked)
           /\ rs_parked' = rs_parked
           /\ rs_gen.pc = "looping"
           /\ rs_gen'.pc = "none")
          => active_procs' = active_procs]_vars

\* C28: when an item with data is yielded for a member, the member's chunk timer is
\* set to the current time, so that a ChunkTimeout item for the member is yielded
\* only when more than its effective chunk_timeout has passed on the timer since the
\* member's last item with data (since the start of the iteration when it had none).
C28_DataRestartsChunkTimer ==
    [][\A p \in Procs :
        /\ YieldsFor(p, "ProcessData") =>
              rs_gen'.timeout_times[p].chunk_timeout_time = now
        /\ YieldsFor(p, "ChunkTimeout") =>
              /\ EffectiveTimeout(p, "chunk_timeout") # None
              /\ now - rs_gen.timeout_times[p].chunk_timeout_time
                    > The(EffectiveTimeout(p, "chunk_timeout"))
      ]_vars

\* The effective timeout of p named by field is set and less than the time passed
\* on p's timer time_field.
Exceeded(p, field, time_field) ==
    /\ EffectiveTimeout(p, field) # None
    /\ now - rs_gen.timeout_times[p][time_field] > The(EffectiveTimeout(p, field))

\* The generator visits p.
Visits(p) == rs_gen.pc = "looping" /\ rs_hist'.visits[p] = rs_hist.visits[p] + 1

\* C29: a visit of a live member whose effective total and chunk deadlines are both
\* exceeded yields one item for it, data if read() returned some and TotalTimeout
\* otherwise, never ChunkTimeout; the TotalTimeout item is the member's only item
\* of the visit (it leaves the cycle and _active_procs with it); and a ChunkTimeout
\* item is yielded only when the total deadline is not exceeded.
C29_TotalTimeoutBeforeChunkTimeout ==
    [][\A p \in Procs :
        /\ (/\ Visits(p)
            /\ member[p] = "running"
            /\ Exceeded(p, "total_timeout", "total_timeout_time")
            /\ Exceeded(p, "chunk_timeout", "chunk_timeout_time"))
           => /\ rs_gen'.pc = "yielded"
              /\ rs_last'.other = {p}
              /\ rs_last'.res \in {"ProcessData", "TotalTimeout"}
        /\ YieldsFor(p, "TotalTimeout") =>
              /\ rs_hist'.ends[p] = rs_hist.ends[p] + 1
              /\ p \notin rs_gen'.todo
              /\ p \notin The(active_procs')
        /\ YieldsFor(p, "ChunkTimeout") =>
              ~Exceeded(p, "total_timeout", "total_timeout_time")
      ]_vars

\* Both deadlines of p2 were exceeded at time 2 and TotalTimeout was yielded: the total
\* timer was restarted and the chunk timer still stands at the start.
C29_Witness ==
    /\ rs_gen.pc = "yielded"
    /\ rs_last.res = "TotalTimeout"
    /\ rs_last.other = {"p2"}
    /\ rs_gen.total_timeout = Some(1)
    /\ rs_gen.chunk_timeout = Some(1)
    /\ now = 2
    /\ rs_gen.timeout_times["p2"] = [total_timeout_time |-> 2, chunk_timeout_time |-> 0]

\* C30: within a cycle of the iteration only members active when the cycle began are
\* visited, none of them twice, and those yet to visit are the ones not visited, so
\* that a cycle that runs to its end has visited each exactly once; return_back at a
\* yield changes nothing of the running cycle, and the member it put back is in the
\* cycle that follows.
C30_EachActiveMemberOncePerCycle ==
    /\ [](/\ \A p \in Procs :
                /\ rs_hist.visits[p] <= 1
                /\ rs_hist.visits[p] = 1 => p \in rs_hist.cycle
          /\ rs_gen.todo = {p \in rs_hist.cycle : rs_hist.visits[p] = 0})
    /\ [][/\ ReturnBackAtYield =>
                /\ rs_gen'.todo = rs_gen.todo
                /\ rs_hist'.cycle = rs_hist.cycle
                /\ rs_hist'.visits = rs_hist.visits
          /\ (rs_gen.pc = "looping" /\ rs_gen.todo = {} /\ rs_gen'.todo # {})
             => /\ \A p \in rs_hist.cycle : rs_hist.visits[p] = 1
                /\ rs_hist'.cycle = The(active_procs)
                /\ rs_gen'.todo = rs_hist'.cycle
         ]_vars

\* p1 was taken out, put back by return_back, and the cycle that followed has visited
\* both members once.
C30_Witness ==
    /\ rs_gen.pc = "looping"
    /\ rs_gen.todo = {}
    /\ rs_hist.cycle = Procs
    /\ rs_hist.visits = [p \in Procs |-> 1]
    /\ rs_hist.returned = {"p1"}
    /\ rs_hist.ends = [p \in Procs |-> IF p = "p1" THEN 1 ELSE 0]

\* C39: while an iteration of the driver is in progress, every member of
\* _active_procs is a member of the ReadingSet, also after add or remove was called
\* at a yield: what was removed from the members is not polled any more.
C39_ActiveIsSubsetOfMembers ==
    (InProgress(rs_gen) /\ active_procs # None) => The(active_procs) \subseteq rs_set

\* C40: while an iteration of the driver is in progress, every member of
\* _active_procs has its entry in timeout_times, also a member added with add at a
\* yield and put into _active_procs with return_back, so that visiting it when it has
\* no bytes raises nothing.
C40_ActiveMemberHasTimers ==
    /\ (InProgress(rs_gen) /\ active_procs # None)
       => The(active_procs) \subseteq DOMAIN rs_gen.timeout_times
    /\ rs_last.op = "next" => rs_last.res # "KeyError"

\* C34: after kill or terminate returned on a started child, return_code holds the
\* exit status collected, as it does after join.
C34_StopSetsReturnCode ==
    (last.op \in {"kill", "terminate"} /\ last.pre \in {"RUNNING", "EXITED"})
    => (last.res = "ok" /\ return_code # None /\ return_code = os.code)

\* The signal of kill and of terminate.
SignalOf(op) == IF op = "kill" THEN SIGKILL ELSE SIGTERM

\* C35: kill and terminate on a child with a process, running or exited and not yet
\* reaped, raise nothing and leave it REAPED, the signal being sent when alive found
\* the process running (also when it exits before the signal arrives) and not
\* otherwise; on a NEW or REAPED child they raise ProcessIsNotStartedError.
C35_FirstStopNeverRaises ==
    last.op \in {"kill", "terminate"} =>
        /\ last.pre \in {"RUNNING", "EXITED"} =>
              /\ last.res = "ok"
              /\ State = "REAPED"
              /\ os.status = "exited"
        /\ last.pre = "RUNNING" => os.signal = Some(SignalOf(last.op))
        /\ last.pre = "EXITED" => os.signal = None
        /\ last.pre \in {"NEW", "REAPED"} =>
              /\ last.res = "ProcessIsNotStartedError"
              /\ State = last.pre

\* kill found the process running, and the process exited with its own code before
\* the signal arrived.
C35_Witness ==
    /\ last.op = "kill"
    /\ last.pre = "RUNNING"
    /\ last.res = "ok"
    /\ os.signal = Some(SIGKILL)
    /\ os.code = Some(1)
    /\ State = "REAPED"

\* The first of the reads that is not a chunk of bytes (one past the last read if every
\* read is), and the chunks before the n-th read joined in order.
FirstEnd(reads) ==
    IF \E i \in 1..Len(reads) : reads[i].errno # "none" \/ reads[i].chunk = <<>>
    THEN CHOOSE i \in 1..Len(reads) :
            /\ reads[i].errno # "none" \/ reads[i].chunk = <<>>
            /\ \A j \in 1..(i - 1) : reads[j].errno = "none" /\ reads[j].chunk # <<>>
    ELSE Len(reads) + 1

RECURSIVE ChunksBefore(_, _)
ChunksBefore(reads, n) ==
    IF n <= 1 THEN <<>> ELSE ChunksBefore(reads, n - 1) \o reads[n - 1].chunk

\* _read_while returned the chunks read before the first read of 0 bytes or OSError,
\* joined in order, and raised nothing.
C36_ReadWhileReturnsChunksInOrder ==
    read_res # None =>
        LET r == The(read_res) IN
        /\ r.buff = ChunksBefore(r.reads, FirstEnd(r.reads))
        /\ r.raised = "none"

\* C36: _read_while returns the chunks read, joined in order, up to the first read of
\* 0 bytes or the first read that would block, and raises nothing then; an OS error of
\* a read other than would-block is raised to the caller.
C36_ReadWhileRaisesOtherErrors ==
    read_res # None =>
        LET r == The(read_res)
            end == FirstEnd(r.reads)
            errno == IF end <= Len(r.reads) THEN r.reads[end].errno ELSE "EAGAIN"
        IN  IF errno \in {"none", "EAGAIN"}
            THEN r.buff = ChunksBefore(r.reads, end) /\ r.raised = "none"
            ELSE r.raised = errno

\* C33: a member that is still running with its effective total_timeout exceeded on
\* its timer is in the end given a TotalTimeout item and taken out of _active_procs
\* (unless its process exits or the iteration is over first), also when read() returns
\* bytes at every visit of it.
C33_TotalTimeoutIsReported ==
    \A p \in Procs :
        (/\ InProgress(rs_gen)
         /\ p \in ActiveOf(rs_gen)
         /\ member[p] = "running"
         /\ Exceeded(p, "total_timeout", "total_timeout_time"))
        ~> (\/ /\ rs_last.res = "TotalTimeout"
               /\ rs_last.other = {p}
               /\ p \notin ActiveOf(rs_gen)
            \/ member[p] # "running"
            \/ ~InProgress(rs_gen))

\* A member still running past its total deadline is in the end given a TotalTimeout
\* item or one more data item.
C33_TotalTimeoutUnlessData ==
    \A p \in Procs :
        (/\ InProgress(rs_gen)
         /\ p \in ActiveOf(rs_gen)
         /\ member[p] = "running"
         /\ rs_gen.pc = "looping"
         /\ Exceeded(p, "total_timeout", "total_timeout_time"))
        ~> (\/ /\ rs_last.res \in {"TotalTimeout", "ProcessData"}
               /\ rs_last.other = {p}
               /\ rs_gen.pc = "yielded"
            \/ member[p] # "running"
            \/ ~InProgress(rs_gen))

\* The generator ends: its code runs from the loop to its end or to an exception.
GeneratorEnds == rs_gen.pc = "looping" /\ rs_gen'.pc = "none"

\* Member p will be taken out of the iteration: its process has exited, or it runs
\* with an effective total_timeout whose deadline the clock can pass.
WillLeave(p) ==
    \/ member[p] = "exited"
    \/ /\ member[p] = "running"
       /\ EffectiveTimeout(p, "total_timeout") # None
       /\ rs_gen.timeout_times[p].total_timeout_time
            + The(EffectiveTimeout(p, "total_timeout")) < MaxTime

\* An iteration of members whose processes have all exited ends with StopIteration,
\* and an iteration over no members ends at once.
C31_IterationOfExitedMembersTerminates ==
    /\ (InProgress(rs_gen) /\ \A p \in ActiveOf(rs_gen) : member[p] = "exited")
       ~> (rs_gen.pc = "none" /\ rs_last.res = "StopIteration")
    /\ [][(rs_gen.pc = "looping" /\ rs_hist.started = {} /\ rs_gen' # rs_gen)
          => (rs_gen'.pc = "none" /\ rs_last'.res = "StopIteration")]_vars

\* C31: an iteration that the caller keeps consuming without return_back, and each of
\* whose members has exited or has an effective timeout, ends in time; the generator
\* of an iteration over started members ends exactly when _active_procs has become
\* empty; and the iteration of a ReadingSet without members ends at once with no item.
C31_IterationTerminates ==
    /\ (InProgress(rs_gen) /\ \A p \in ActiveOf(rs_gen) : WillLeave(p))
       ~> (rs_gen.pc = "none" /\ rs_last.res = "StopIteration")
    /\ [][(GeneratorEnds /\ \A p \in rs_set : member[p] # "unstarted")
          => (active_procs = Some({}) /\ rs_last'.res = "StopIteration")]_vars
    /\ [][(rs_gen.pc = "looping" /\ rs_gen.todo = {} /\ active_procs = Some({})
           /\ rs_gen' # rs_gen)
          => GeneratorEnds]_vars
    /\ [][(rs_gen.pc = "looping" /\ rs_hist.started = {} /\ rs_gen' # rs_gen)
          => (rs_gen'.pc = "none" /\ rs_last'.res = "StopIteration")]_vars

\* C32: when the iteration of the driver gives a member its ProcEnd, every byte that
\* the member's process wrote has been handed over in the data items before it, each
\* stream in the order written.
C32_NoByteLostBeforeProcEnd ==
    (/\ rs_last.op = "next"
     /\ rs_last.res = "ProcEnd"
     /\ last.op = "read"
     /\ last.res = "ProcessIsDeadError")
    => got = written

\* Message msg was accepted by send_stdin and no thread has taken it from the queue.
Queued(msg) == \E k \in DOMAIN messages : messages[k].msg = msg

\* send_stdin raises ThreadStdinManagerNotAliveError exactly when _t is None; alive
\* is true exactly when _t is set; and an accepted message is passed to its child's
\* send_stdin unless the thread leaves _job first.
C37_NotAliveWithoutThread ==
    /\ [](mgr_last.op = "send_stdin" =>
            (mgr_last.res = "ThreadStdinManagerNotAliveError" <=> ~mgr_last.started))
    /\ [](mgr_alive <=> mgr_t # None)
    /\ \A msg \in 1..MaxMessages : Queued(msg) ~> (msg \in passed \/ ~is_alive)

\* C37: send_stdin raises ThreadStdinManagerNotAliveError whenever the sending thread
\* is not running, also after the thread left _job because a child's send_stdin
\* failed; alive is true only while the thread is running; and a message that
\* send_stdin accepted is in the end passed to its child's send_stdin unless the
\* manager is stopped.
C37_NotAliveWheneverWorkerNotRunning ==
    /\ []((mgr_last.op = "send_stdin" /\ ~mgr_last.running)
          => mgr_last.res = "ThreadStdinManagerNotAliveError")
    /\ []((stopping.pc = "none" /\ mgr_alive) => is_alive)
    /\ \A msg \in 1..MaxMessages : Queued(msg) ~> (msg \in passed \/ mgr_t = None)

\* The threads the manager created that have not left _job.
LiveWorkers == {i \in DOMAIN jobs : jobs[i].pc # "done"}

\* The caller's next call on the manager after the call recorded.
NextCall(op) == mgr_last' # mgr_last /\ mgr_last'.op = op /\ stopping.pc = "none"

\* C38: start raises ThreadStdinManagerAlreadyStartedError on a started manager and
\* starts the thread otherwise; stop raises ThreadStdinManagerAlreadyStoppedError on
\* a manager that is not started; stop returns True only with the thread ended, and
\* then alive is false and the next start succeeds; after stop returned False the
\* manager is still started, the exit queue is empty and the next stop raises
\* nothing; and at no time are two threads of the manager running.
C38_StartStopLifecycle ==
    /\ [](mgr_last.op = "start" =>
            IF mgr_last.started
            THEN mgr_last.res = "ThreadStdinManagerAlreadyStartedError"
            ELSE mgr_last.res = "ok" /\ mgr_alive)
    /\ [](mgr_last.op = "stop" =>
            IF mgr_last.started
            THEN mgr_last.res \in {"joining", "True", "False"}
            ELSE mgr_last.res = "ThreadStdinManagerAlreadyStoppedError")
    /\ []((mgr_last.op = "stop" /\ mgr_last.res = "True")
          => (~mgr_last.running /\ ~mgr_alive /\ q_exit = 0 /\ LiveWorkers = {}))
    /\ []((mgr_last.op = "stop" /\ mgr_last.res = "False")
          => (mgr_alive /\ q_exit = 0))
    /\ [][(mgr_last.op = "stop" /\ mgr_last.res = "True" /\ NextCall("start"))
          => mgr_last'.res = "ok"]_vars
    /\ [][(mgr_last.op = "stop" /\ mgr_last.res = "False" /\ NextCall("stop"))
          => mgr_last'.res = "joining"]_vars
    /\ [](Cardinality(LiveWorkers) <= 1)

\* The manager was stopped and started again, and a stop() of its second thread has
\* timed out with the thread still running.
C38_Witness ==
    /\ mgr_last.op = "stop"
    /\ mgr_last.res = "False"
    /\ Len(jobs) = 2
    /\ jobs[1].pc = "done"
    /\ is_alive

====
